---- MODULE Spec2Model ----
(***************************************************************************)
(* Stormshield SNS CLI GUI (src/src/main_gui.py): the worker threads       *)
(* (ConnectionThread, CommandExecutorThread, MonitoringThread), the UI     *)
(* thread's handlers of StormshieldGUI, and the queue of signals that the  *)
(* worker threads post to the UI thread.                                   *)
(*                                                                         *)
(* Texts are sequences: a field or a command line is a sequence of         *)
(* one-character strings, a command output is a sequence of tokens (status *)
(* markers and data).  A session handle is a number, 0 standing for None.  *)
(*                                                                         *)
(* A handler of the UI thread is one step, except where it blocks: in      *)
(* wait() on a poller, or in a send_command it calls itself.  The event    *)
(* loop a message box runs while it is open is not modelled.  An emit of a *)
(* worker thread is queued for the UI thread; the queue holds MaxQueue     *)
(* signals, and a worker whose emit finds it full waits.  An exception     *)
(* that leaves a handler ends the process.                                 *)
(*                                                                         *)
(* The command editor holds a sequence of lines, fixed in a behaviour.     *)
(* The profile store (QSettings) is a function from keys to values, a key  *)
(* being the sequence of its '/'-separated parts.                          *)
(***************************************************************************)
EXTENDS Integers, Sequences, FiniteSets, TLC

\* ---------------------------------------------------------------- bounds
\* longest command list handed to a CommandExecutorThread
MaxCmds == 3
\* CommandExecutorThread objects created in one behaviour
MaxExec == 1
\* signals waiting in the UI thread's event queue
MaxQueue == 1
\* SSLClient objects constructed in one behaviour
MaxSessions == 1
\* MonitoringThread objects created in one behaviour
MaxMonitors == 2
\* cycles of an observed MonitoringThread
MaxCycles == 2
\* CommandExecutorThread objects and sessions in one behaviour of the
\* commands and terminal tabs
MaxBatchExec == 2
MaxBatchSessions == 2
\* lines of a text typed into the command editor
MaxLines == 3

\* ---------------------------------------------------------------- texts
None == 0

\* str.strip() on a sequence of characters
RECURSIVE LStrip(_)
LStrip(s) ==
    IF s # <<>> /\ Head(s) = " " THEN LStrip(Tail(s)) ELSE s

RECURSIVE RStrip(_)
RStrip(s) ==
    IF s # <<>> /\ s[Len(s)] = " " THEN RStrip(SubSeq(s, 1, Len(s) - 1)) ELSE s

Strip(s) == RStrip(LStrip(s))

\* Python truth of a str: non-empty
Truthy(s) == s # <<>>

\* `marker in text` on a text of tokens
Contains(text, marker) == \E i \in 1..Len(text) : text[i] = marker

SuccessMarker == "100 code="

\* what str(result) of a returned response can be
ResultTexts == { << "data", "100 code=" >>, << "200 code=" >> }

\* what str(e) of a raised exception can be
ErrorTexts == { << "100 code=", "lost" >> }

\* the commands an operator gives (already stripped, not blank, no comment)
CommandTexts == { <<"c">>, <<"d", " ", "e">> }

RECURSIVE SeqsUpTo(_, _)
SeqsUpTo(S, n) ==
    IF n = 0 THEN { <<>> }
    ELSE LET shorter == SeqsUpTo(S, n - 1)
         IN  shorter \cup { Append(s, x) : s \in { t \in shorter : Len(t) = n - 1 }, x \in S }

\* ---------------------------------------------------------------- state
VARIABLES
    client,             \* StormshieldGUI.client: a session handle or None
    is_connected,       \* StormshieldGUI.is_connected
    connect_btn_text,   \* text of connect_btn
    enabled,            \* widget |-> isEnabled()
    host_edit, user_edit, password_edit,   \* the connection fields' texts
    port_spin,             \* the port field's value
    command_text,       \* the lines of the command editor
    settings,           \* QSettings("snstool", "StormshieldGUI"): key |-> value
    shown,              \* what the handler that ran last showed the operator
    connection_thread,  \* StormshieldGUI.connection_thread (None or the object)
    conn,               \* the ConnectionThread object
    executor_thread,    \* StormshieldGUI.executor_thread: None or an executor id
    terminal_executor,  \* StormshieldGUI.terminal_executor: None or an executor id
    execs,              \* executor id |-> CommandExecutorThread object
    monitoring_thread,  \* StormshieldGUI.monitoring_thread: None or a poller id
    mon,                \* the MonitoringThread object last created
    sessions,           \* session handle |-> state of that SSLClient
    ui_queue,           \* signals posted to the UI thread, oldest first
    ui_pc,              \* where the UI thread is: idle, or blocked inside a handler
    stopped_pollers,    \* history: the pollers whose stop_monitoring has returned
    trace,              \* history: what the observed thread sent and emitted
    observed            \* history: the thread whose run is recorded (None: no one)

gui_vars ==
    << client, is_connected, connect_btn_text, enabled, host_edit, user_edit,
       password_edit, port_spin, command_text, settings, shown, connection_thread, executor_thread, terminal_executor, monitoring_thread >>

vars ==
    << client, is_connected, connect_btn_text, enabled, host_edit, user_edit,
       password_edit, port_spin, command_text, settings, shown, connection_thread, conn, executor_thread, terminal_executor, execs,
       monitoring_thread, mon, sessions, ui_queue, ui_pc, stopped_pollers, trace,
       observed >>

\* ------------------------------------------------------------- histories
Exec(t) == [kind |-> "exec", id |-> t]
Poller(g) == [kind |-> "mon", id |-> g]
\* the ConnectionThread object of the latest connect request: its history
\* starts when connect_to_appliance creates it
Connector == [kind |-> "conn", id |-> 1]
Nobody == [kind |-> "none", id |-> 0]

Record(who, entries) ==
    IF who = observed THEN trace \o entries ELSE trace

IsSend(e) == e.ev = "send"
IsEvent(e) == e.ev = "event"
IsProgress(e) == e.ev = "progress"
IsOutcome(e) == e.ev \in { "return", "raise" }
IsCycle(e) == e.ev = "cycle"
IsSnapshot(e) == e.ev = "snapshot"

Sends == SelectSeq(trace, IsSend)
Events == SelectSeq(trace, IsEvent)
Progresses == SelectSeq(trace, IsProgress)
Outcomes == SelectSeq(trace, IsOutcome)

\* --------------------------------------------------- the UI's event queue
\* a worker thread's emit of a signal connected to a slot of the UI thread:
\* the call is queued, and runs when the UI thread next takes it
Post(q, sig, src, arg) == Append(q, [sig |-> sig, src |-> src, arg |-> arg])

QueueHasRoom(n) == Len(ui_queue) + n <= MaxQueue

\* ------------------------------------------------------- the UI thread
Idle == [op |-> "idle", then |-> "none", step |-> 0, match |-> FALSE]

\* the process runs: the window was not closed and no slot raised (an
\* exception that leaves a slot ends the process)
Alive == ui_pc.op \notin { "closed", "crashed" }

\* ------------------------------------------------- CommandExecutorThread
\* the CommandExecutorThread objects a behaviour can create
ExecIds == DOMAIN execs

UnusedExec == [pc |-> "unused", role |-> "none", client |-> None, commands |-> <<>>, i |-> 0]

\* CommandExecutorThread.__init__, then start()
NewExec(role, cl, commands) ==
    [pc |-> "loop", role |-> role, client |-> cl, commands |-> commands, i |-> 1]

\* QThread.isRunning()
ExecIsRunning(e) == e.pc \in { "loop", "sending", "emitted" }

\* the next item of `for i, command in enumerate(self.commands)` that passes
\* `if command.strip()`, from position i on; Len + 1 when there is none
RECURSIVE NextCommand(_, _)
NextCommand(commands, i) ==
    IF i > Len(commands) THEN Len(commands) + 1
    ELSE IF Truthy(Strip(commands[i])) THEN i
    ELSE NextCommand(commands, i + 1)

\* the progress computed from i instead of i + 1
ProgressValue_FromIndex(k, total) == (100 * (k - 1)) \div total

\* the progress rounded to the nearest integer
ProgressValue_Rounded(k, total) == (200 * k + total) \div (2 * total)

\* a variant that reports the share of the commands still to do
ProgressValue_Remaining(k, total) == (100 * (total - k + 1)) \div total

\* progress = int(((i + 1) / total_commands) * 100), k = i + 1 commands done.
\* The float product truncates to the integer quotient for every total below
\* 50 (the first difference is 29 of 50).
ProgressValue(k, total) == (100 * k) \div total

\* the text emitted for a returned response
AnnotatedResult(text) ==
    IF Contains(text, SuccessMarker)
    THEN Append(text, " | Command executed successfully.")
    ELSE Append(text, " | Command execution failed.")

\* the event emitted for a returned response (line 165)
ReturnedEvent(command, text) ==
    << command, AnnotatedResult(text), TRUE >>

\* the event emitted for a raised exception (line 167)
RaisedEvent(command, msg) ==
    << command, << "Error: " >> \o msg, FALSE >>

\* self.client.send_command(command) is called
ExecSend(t) ==
    LET e == execs[t]
        j == NextCommand(e.commands, e.i)
    IN  /\ Alive
        /\ e.pc = "loop"
        /\ j <= Len(e.commands)
        /\ execs' = [execs EXCEPT ![t].pc = "sending", ![t].i = j]
        /\ trace' = Record(Exec(t), << [ev |-> "send", cmd |-> e.commands[j]] >>)
        /\ UNCHANGED << gui_vars, conn, mon, sessions, ui_queue, ui_pc, stopped_pollers, observed >>

\* the send returns a response: the annotated text goes out as an event
ExecReturn(t) ==
    LET e == execs[t]
    IN  /\ Alive
        /\ e.pc = "sending"
        /\ e.client # None
        /\ QueueHasRoom(1)
        /\ \E text \in ResultTexts :
             LET event == ReturnedEvent(e.commands[e.i], text)
             IN  /\ ui_queue' = Post(ui_queue, "command_executed", t, event)
                 /\ trace' = Record(Exec(t), << [ev |-> "return", text |-> text],
                                                [ev |-> "event", event |-> event] >>)
        /\ execs' = [execs EXCEPT ![t].pc = "emitted"]
        /\ UNCHANGED << gui_vars, conn, mon, sessions, ui_pc, stopped_pollers, observed >>

\* the exception ends the run instead of being handled inside the loop
ExecRaise_Abort(t) ==
    LET e == execs[t]
    IN  /\ Alive
        /\ e.pc = "sending"
        /\ QueueHasRoom(1)
        /\ \E msg \in ErrorTexts :
             LET event == RaisedEvent(e.commands[e.i], msg)
             IN  /\ ui_queue' = Post(ui_queue, "command_executed", t, event)
                 /\ trace' = Record(Exec(t), << [ev |-> "raise", text |-> msg],
                                                [ev |-> "event", event |-> event] >>)
        /\ execs' = [execs EXCEPT ![t].pc = "emitted", ![t].i = Len(e.commands)]
        /\ UNCHANGED << gui_vars, conn, mon, sessions, ui_pc, stopped_pollers, observed >>

\* the exception is swallowed: no event tells of the failed command
ExecRaise_NoEvent(t) ==
    LET e == execs[t]
    IN  /\ Alive
        /\ e.pc = "sending"
        /\ \E msg \in ErrorTexts :
             trace' = Record(Exec(t), << [ev |-> "raise", text |-> msg] >>)
        /\ execs' = [execs EXCEPT ![t].pc = "emitted"]
        /\ UNCHANGED << gui_vars, conn, mon, sessions, ui_queue, ui_pc, stopped_pollers, observed >>

\* the send (or the handling of its response) raises: except Exception as e
ExecRaise(t) ==
    LET e == execs[t]
    IN  /\ Alive
        /\ e.pc = "sending"
        /\ QueueHasRoom(1)
        /\ \E msg \in ErrorTexts :
             LET event == RaisedEvent(e.commands[e.i], msg)
             IN  /\ ui_queue' = Post(ui_queue, "command_executed", t, event)
                 /\ trace' = Record(Exec(t), << [ev |-> "raise", text |-> msg],
                                                [ev |-> "event", event |-> event] >>)
        /\ execs' = [execs EXCEPT ![t].pc = "emitted"]
        /\ UNCHANGED << gui_vars, conn, mon, sessions, ui_pc, stopped_pollers, observed >>

\* progress is emitted (its slot is the progress bar's setValue, which no
\* handler of the program reads), msleep(100), and the loop goes on
ExecProgress(t) ==
    LET e == execs[t]
    IN  /\ Alive
        /\ e.pc = "emitted"
        /\ execs' = [execs EXCEPT ![t].pc = "loop", ![t].i = e.i + 1]
        /\ trace' = Record(Exec(t), << [ev |-> "progress",
                                         value |-> ProgressValue(e.i, Len(e.commands))] >>)
        /\ UNCHANGED << gui_vars, conn, mon, sessions, ui_queue, ui_pc, stopped_pollers, observed >>

\* run() returns: QThread emits finished
ExecFinish(t) ==
    LET e == execs[t]
    IN  /\ Alive
        /\ e.pc = "loop"
        /\ NextCommand(e.commands, e.i) > Len(e.commands)
        /\ QueueHasRoom(1)
        /\ execs' = [execs EXCEPT ![t].pc = "finished"]
        /\ ui_queue' = Post(ui_queue, "finished", t, <<>>)
        /\ trace' = Record(Exec(t), << [ev |-> "finished"] >>)
        /\ UNCHANGED << gui_vars, conn, mon, sessions, ui_pc, stopped_pollers, observed >>

\* ------------------------------------------------------ ConnectionThread
NoConn == [pc |-> "none", host |-> <<>>, user |-> <<>>, password |-> <<>>, client |-> None]

\* ConnectionThread.__init__, then start()
NewConn(host, user, password) ==
    [pc |-> "started", host |-> host, user |-> user, password |-> password, client |-> None]

ConnIsRunning == conn.pc \in { "started", "connecting", "fallback" }

\* the handle of the next SSLClient object
SessionIds == DOMAIN sessions

NextSession ==
    IF \E s \in SessionIds : sessions[s] = "unused"
    THEN CHOOSE s \in SessionIds :
             sessions[s] = "unused" /\ \A r \in 1..(s - 1) : sessions[r] # "unused"
    ELSE Cardinality(SessionIds) + 1

\* what str(e) of a failed connection can be, as words
ConnErrorTexts ==
    { << "SSL", "handshake" >>, << "certificate", "Connection", "login" >>,
      << "Connection", "refused" >>, << "connection", "login" >>,
      << "bad", "login" >>, << "Authentication", "failed" >>, << "timed", "out" >> }

\* a variant that leaves the case as it is
Lower_CaseKept(word) == word

\* str.lower() of one word
Lower(word) ==
    CASE word = "SSL" -> "ssl"
      [] word = "Connection" -> "connection"
      [] word = "Authentication" -> "authentication"
      [] OTHER -> word

LowerText(text) == [i \in 1..Len(text) |-> Lower(text[i])]

\* the message of connected(False, ...) for an error text (lines 125-139)
ConnectionFailedMessage(error_msg) ==
    LET low == LowerText(error_msg)
        classified ==
            IF Contains(low, "certificate") \/ Contains(low, "ssl")
            THEN << "SSL/Certificate Error: " >> \o error_msg
            ELSE IF Contains(low, "connection")
            THEN << "Connection Error: " >> \o error_msg
            ELSE IF Contains(low, "authentication") \/ Contains(low, "login")
            THEN << "Authentication Error: " >> \o error_msg
            ELSE error_msg
    IN  << "Connection failed: " >> \o classified

\* run() begins: progress.emit(25), then SSLClient(...) is called
ConnBegin ==
    /\ Alive
    /\ conn.pc = "started"
    /\ conn' = [conn EXCEPT !.pc = "connecting"]
    /\ trace' = Record(Connector, << [ev |-> "progress", value |-> 25],
                                     [ev |-> "construct"] >>)
    /\ UNCHANGED << gui_vars, execs, mon, sessions, ui_queue, ui_pc, stopped_pollers, observed >>

\* SSLClient(..., sslverifypeer=False) raises TypeError: SSLClient(...) is
\* called again without that argument
ConnTypeError ==
    /\ Alive
    /\ conn.pc = "connecting"
    /\ conn' = [conn EXCEPT !.pc = "fallback"]
    /\ trace' = Record(Connector, << [ev |-> "construct"] >>)
    /\ UNCHANGED << gui_vars, execs, mon, sessions, ui_queue, ui_pc, stopped_pollers, observed >>

\* SSLClient(...) returns the session: progress.emit(100), connected.emit(True, ...)
ConnSucceed ==
    /\ Alive
    /\ conn.pc \in { "connecting", "fallback" }
    /\ NextSession \in SessionIds
    /\ QueueHasRoom(1)
    /\ conn' = [conn EXCEPT !.pc = "finished", !.client = NextSession]
    /\ sessions' = [sessions EXCEPT ![NextSession] = "open"]
    /\ ui_queue' = Post(ui_queue, "connected", 0, << TRUE, << "Successfully connected" >> >>)
    /\ trace' = Record(Connector, << [ev |-> "progress", value |-> 100],
                                     [ev |-> "connected", success |-> TRUE] >>)
    /\ UNCHANGED << gui_vars, execs, mon, ui_pc, stopped_pollers, observed >>

\* a failed construction is tried again
ConnFail_Retry ==
    /\ Alive
    /\ conn.pc \in { "connecting", "fallback" }
    /\ conn' = [conn EXCEPT !.pc = "connecting"]
    /\ trace' = Record(Connector, << [ev |-> "construct"] >>)
    /\ UNCHANGED << gui_vars, execs, mon, sessions, ui_queue, ui_pc, stopped_pollers, observed >>

\* the failure is reported without the progress value 100
ConnFail_NoProgress ==
    /\ Alive
    /\ conn.pc \in { "connecting", "fallback" }
    /\ QueueHasRoom(1)
    /\ \E error_msg \in ConnErrorTexts :
         ui_queue' = Post(ui_queue, "connected", 0,
                          << FALSE, ConnectionFailedMessage(error_msg) >>)
    /\ conn' = [conn EXCEPT !.pc = "finished"]
    /\ trace' = Record(Connector, << [ev |-> "connected", success |-> FALSE] >>)
    /\ UNCHANGED << gui_vars, execs, mon, sessions, ui_pc, stopped_pollers, observed >>

\* SSLClient(...) raises: progress.emit(100), connected.emit(False, ...)
ConnFail ==
    /\ Alive
    /\ conn.pc \in { "connecting", "fallback" }
    /\ QueueHasRoom(1)
    /\ \E error_msg \in ConnErrorTexts :
         ui_queue' = Post(ui_queue, "connected", 0,
                          << FALSE, ConnectionFailedMessage(error_msg) >>)
    /\ conn' = [conn EXCEPT !.pc = "finished"]
    /\ trace' = Record(Connector, << [ev |-> "progress", value |-> 100],
                                     [ev |-> "connected", success |-> FALSE] >>)
    /\ UNCHANGED << gui_vars, execs, mon, sessions, ui_pc, stopped_pollers, observed >>

\* ------------------------------------------------------ MonitoringThread
MonitorKinds == { "system", "ipsec", "interface" }

NoMon ==
    [pc |-> "none", id |-> 0, client |-> None, monitor_type |-> "system",
     is_running |-> FALSE, sendno |-> 0, result |-> <<>>]

\* MonitoringThread.__init__, then start()
NewMon(id, cl, kind) ==
    [pc |-> "started", id |-> id, client |-> cl, monitor_type |-> kind,
     is_running |-> FALSE, sendno |-> 0, result |-> <<>>]

\* QThread.isRunning()
MonIsRunning == mon.pc \in { "started", "test", "cycle", "sending", "sleep" }

\* the commands one cycle sends (lines 195-203)
\* a variant that forgets the second ipsec command
MonitorCommands_IpsecOnce(kind) ==
    CASE kind = "system" -> << "monitor system" >>
      [] kind = "ipsec" -> << "monitor getikesa" >>
      [] kind = "interface" -> << "monitor interface" >>
      [] OTHER -> << "monitor <monitor_type>" >>

MonitorCommands(kind) ==
    CASE kind = "system" -> << "monitor system" >>
      [] kind = "ipsec" -> << "monitor getikesa", "monitor getsa" >>
      [] kind = "interface" -> << "monitor interface" >>
      [] OTHER -> << "monitor <monitor_type>" >>

\* what str(result) of a monitor command can be
MonitorTexts == { << "100 code=" >>, << "data" >> }

\* run() begins: self.is_running = True, monitoring_started.emit(...)
MonBegin ==
    /\ Alive
    /\ mon.pc = "started"
    /\ QueueHasRoom(1)
    /\ mon' = [mon EXCEPT !.pc = "test", !.is_running = TRUE]
    /\ ui_queue' = Post(ui_queue, "monitoring_started", mon.id, << mon.monitor_type >>)
    /\ trace' = Record(Poller(mon.id), << [ev |-> "started"] >>)
    /\ UNCHANGED << gui_vars, conn, execs, sessions, ui_pc, stopped_pollers, observed >>

\* the cycles an observed poller has entered
CyclesRecorded == Len(SelectSeq(trace, IsCycle))

\* `while self.is_running`: the loop body is entered, or run() returns
MonTest ==
    /\ Alive
    /\ mon.pc = "test"
    /\ mon.is_running => CyclesRecorded < MaxCycles
    /\ mon' = [mon EXCEPT !.pc = IF mon.is_running THEN "cycle" ELSE "finished"]
    /\ trace' = Record(Poller(mon.id),
                       << [ev |-> IF mon.is_running THEN "cycle" ELSE "finished"] >>)
    /\ UNCHANGED << gui_vars, conn, execs, sessions, ui_queue, ui_pc, stopped_pollers, observed >>

\* `if self.client`: the cycle's first send is called; without a client the
\* cycle goes to its sleep
MonSend ==
    /\ Alive
    /\ mon.pc = "cycle"
    /\ IF mon.client # None
       THEN /\ mon' = [mon EXCEPT !.pc = "sending", !.sendno = 1, !.result = <<>>]
            /\ trace' = Record(Poller(mon.id),
                               << [ev |-> "send", cmd |-> MonitorCommands(mon.monitor_type)[1]] >>)
       ELSE /\ mon' = [mon EXCEPT !.pc = "sleep"]
            /\ trace' = trace
    /\ UNCHANGED << gui_vars, conn, execs, sessions, ui_queue, ui_pc, stopped_pollers, observed >>

\* a send returns: the cycle's next send is called, or the snapshot is
\* published with monitoring_data.emit(str(result))
MonReturn ==
    /\ Alive
    /\ mon.pc = "sending"
    /\ \E text \in MonitorTexts :
         LET cmds == MonitorCommands(mon.monitor_type)
             result == IF mon.sendno = 1 THEN text ELSE mon.result \o << "\n" >> \o text
         IN  IF mon.sendno < Len(cmds)
             THEN /\ mon' = [mon EXCEPT !.sendno = mon.sendno + 1, !.result = result]
                  /\ trace' = Record(Poller(mon.id),
                                     << [ev |-> "return", text |-> text],
                                        [ev |-> "send", cmd |-> cmds[mon.sendno + 1]] >>)
                  /\ UNCHANGED ui_queue
             ELSE /\ QueueHasRoom(1)
                  /\ mon' = [mon EXCEPT !.pc = "sleep", !.result = <<>>]
                  /\ ui_queue' = Post(ui_queue, "monitoring_data", mon.id, result)
                  /\ trace' = Record(Poller(mon.id),
                                     << [ev |-> "return", text |-> text],
                                        [ev |-> "snapshot", data |-> result] >>)
    /\ UNCHANGED << gui_vars, conn, execs, sessions, ui_pc, stopped_pollers, observed >>

\* the exception ends run() once the error text is published
MonRaise_Exit ==
    /\ Alive
    /\ mon.pc = "sending"
    /\ QueueHasRoom(1)
    /\ \E msg \in ErrorTexts :
         /\ ui_queue' = Post(ui_queue, "monitoring_data", mon.id, << "Error: " >> \o msg)
         /\ trace' = Record(Poller(mon.id),
                            << [ev |-> "raise", text |-> msg],
                               [ev |-> "snapshot", data |-> << "Error: " >> \o msg],
                               [ev |-> "finished"] >>)
    /\ mon' = [mon EXCEPT !.pc = "finished", !.result = <<>>]
    /\ UNCHANGED << gui_vars, conn, execs, sessions, ui_pc, stopped_pollers, observed >>

\* a send raises: monitoring_data.emit(f"Error: {str(e)}")
MonRaise ==
    /\ Alive
    /\ mon.pc = "sending"
    /\ QueueHasRoom(1)
    /\ \E msg \in ErrorTexts :
         /\ ui_queue' = Post(ui_queue, "monitoring_data", mon.id, << "Error: " >> \o msg)
         /\ trace' = Record(Poller(mon.id),
                            << [ev |-> "raise", text |-> msg],
                               [ev |-> "snapshot", data |-> << "Error: " >> \o msg] >>)
    /\ mon' = [mon EXCEPT !.pc = "sleep", !.result = <<>>]
    /\ UNCHANGED << gui_vars, conn, execs, sessions, ui_pc, stopped_pollers, observed >>

\* msleep(2000) is over
MonWake ==
    /\ Alive
    /\ mon.pc = "sleep"
    /\ mon' = [mon EXCEPT !.pc = "test"]
    /\ UNCHANGED << gui_vars, conn, execs, sessions, ui_queue, ui_pc, stopped_pollers, trace, observed >>

\* MonitoringThread.stop_monitoring, up to its wait(): the flag is cleared
\* (quit() ends an event loop, and run() starts none)
MonStopRequested(m) == [m EXCEPT !.is_running = FALSE]

\* ------------------------------------------------- the profile store
\* QSettings keeps values under '/'-separated keys; a key is the sequence of
\* its parts, and a profile name with a '/' in it has several parts.
NoSettings == [key \in {} |-> <<>>]

\* the key of the list of profile names, "profiles/list"
ListKey == << "profiles", "list" >>

\* the key "window/geometry"
GeometryKey == << "window", "geometry" >>

\* port_spin: its default value, and the values an operator sets
DefaultPort == 443
Ports == { 443, 8443 }

\* f"profiles/{profile_name}"
ProfileSection(profile_name) == << "profiles" >> \o profile_name

\* f"{profile_section}/host" and the like
ProfileKey(profile_name, field) == ProfileSection(profile_name) \o << field >>

\* the key is the section or lies below it
IsUnder(section, key) ==
    Len(key) >= Len(section) /\ SubSeq(key, 1, Len(section)) = section

\* QSettings.setValue
SetValue(store, key, value) ==
    [k \in DOMAIN store \cup { key } |-> IF k = key THEN value ELSE store[k]]

\* settings.value(key, default)
Value(store, key, default) == IF key \in DOMAIN store THEN store[key] ELSE default

\* QSettings.remove: the key and every key below it
Remove(store, section) ==
    [k \in { x \in DOMAIN store : ~IsUnder(section, x) } |-> store[k]]

\* settings.value("profiles/list", []): a stored list of one name reads back
\* as a str, a stored empty list as no list at all
ListValue(store) ==
    IF ListKey \notin DOMAIN store THEN [type |-> "list", v |-> <<>>]
    ELSE CASE Len(store[ListKey]) = 0 -> [type |-> "none", v |-> <<>>]
           [] Len(store[ListKey]) = 1 -> [type |-> "str", v |-> store[ListKey][1]]
           [] OTHER -> [type |-> "list", v |-> store[ListKey]]

\* get_saved_profiles, and the same normalisation in save_connection_info
get_saved_profiles(store) ==
    LET saved_profiles == ListValue(store)
    IN  CASE saved_profiles.type = "str" ->
                 IF saved_profiles.v # <<>> THEN << saved_profiles.v >> ELSE <<>>
          [] saved_profiles.type = "list" -> saved_profiles.v
          [] OTHER -> <<>>

\* x in a list
InList(x, list) == \E i \in 1..Len(list) : list[i] = x

\* list.remove(x): the list without the first x
ListRemove(list, x) ==
    LET i == CHOOSE j \in 1..Len(list) : list[j] = x /\ \A k \in 1..(j - 1) : list[k] # x
    IN  SubSeq(list, 1, i - 1) \o SubSeq(list, i + 1, Len(list))

\* ------------------------------------------ StormshieldGUI: the handlers
\* stop_btn is the monitor tab's STOP: create_monitor_tab runs after
\* create_commands_tab and rebinds self.stop_btn, so the commands tab's
\* Stop Execution button (exec_stop_btn) is reached by no later statement:
\* it stays disabled, and its handler stop_execution never runs
Widgets ==
    { "connect_btn", "backup_btn", "system_info_btn", "disconnect_btn",
      "execute_btn", "exec_stop_btn", "stop_btn", "send_cmd_btn", "terminal_input" }

\* setEnabled on some widgets
SetEnabled(changes) == changes @@ enabled

\* the widgets' state after StormshieldGUI.__init__
EnabledAfterInit ==
    [w \in Widgets |-> w \in { "connect_btn", "stop_btn", "terminal_input" }]

\* a handler that shows the operator nothing
NothingShown ==
    [dialog |-> "", status |-> "", terminal |-> "", results |-> "", monitor |-> <<>>]

\* QMessageBox, status_bar.showMessage, append_to_terminal, results_text and
\* monitor_text.setPlainText of one handler
Shows(changes) == changes @@ NothingShown

\* the password is stripped like the host and the user
ConnectPassword_Stripped == Strip(password_edit)

\* password = self.password_edit.text()
ConnectPassword == password_edit

\* connect_to_appliance (connect_btn)
connect_to_appliance ==
    /\ Alive
    /\ ui_pc = Idle
    /\ enabled.connect_btn
    /\ LET host == Strip(host_edit)
           user == Strip(user_edit)
           password == ConnectPassword
       IN  IF ~(Truthy(host) /\ Truthy(user) /\ Truthy(password))
           THEN /\ shown' = Shows([dialog |-> "Missing Information"])
                /\ UNCHANGED << enabled, connect_btn_text, connection_thread, conn, trace >>
           ELSE /\ enabled' = SetEnabled([connect_btn |-> FALSE])
                /\ connect_btn_text' = "Connecting..."
                /\ connection_thread' = 1
                /\ conn' = NewConn(host, user, password)
                /\ shown' = NothingShown
                /\ trace' = IF observed = Connector THEN <<>> ELSE trace
    /\ UNCHANGED << client, is_connected, host_edit, user_edit, password_edit, port_spin, command_text, settings,
                    executor_thread, terminal_executor, execs, monitoring_thread,
                    mon, sessions, ui_queue, ui_pc, stopped_pollers, observed >>

\* a failure result leaves connect_btn as connect_to_appliance left it
on_connection_result_ConnectLeftDisabled(success) ==
    IF success
    THEN /\ client' = conn.client
         /\ is_connected' = TRUE
         /\ connect_btn_text' = "Connected"
         /\ enabled' = SetEnabled([connect_btn |-> FALSE, disconnect_btn |-> TRUE,
                                   backup_btn |-> TRUE, system_info_btn |-> TRUE,
                                   execute_btn |-> TRUE, send_cmd_btn |-> TRUE])
         /\ shown' = Shows([status |-> "Connected to host"])
    ELSE /\ client' = client
         /\ is_connected' = FALSE
         /\ connect_btn_text' = "Connect to Appliance"
         /\ enabled' = SetEnabled([disconnect_btn |-> FALSE,
                                   execute_btn |-> FALSE, send_cmd_btn |-> FALSE])
         /\ shown' = Shows([status |-> "Connection failed"])

\* on_connection_result(success, message): what it assigns
on_connection_result(success) ==
    IF success
    THEN /\ client' = conn.client
         /\ is_connected' = TRUE
         /\ connect_btn_text' = "Connected"
         /\ enabled' = SetEnabled([connect_btn |-> FALSE, disconnect_btn |-> TRUE,
                                   backup_btn |-> TRUE, system_info_btn |-> TRUE,
                                   execute_btn |-> TRUE, send_cmd_btn |-> TRUE])
         /\ shown' = Shows([status |-> "Connected to host"])
    ELSE /\ client' = client
         /\ is_connected' = FALSE
         /\ connect_btn_text' = "Connect to Appliance"
         /\ enabled' = SetEnabled([connect_btn |-> TRUE, disconnect_btn |-> FALSE,
                                   execute_btn |-> FALSE, send_cmd_btn |-> FALSE])
         /\ shown' = Shows([status |-> "Connection failed"])

\* what client.close() does to the session: it closes it, or it raises (the
\* exception is swallowed), or the client has no close attribute
CloseOutcomes == { "closed", "raised", "no close" }

\* backup_btn is left as it is
disconnect_effects_BackupLeftEnabled(outcome) ==
    /\ sessions' = IF client # None /\ outcome = "closed"
                   THEN [sessions EXCEPT ![client] = "closed"]
                   ELSE sessions
    /\ client' = None
    /\ is_connected' = FALSE
    /\ connect_btn_text' = "Connect to Appliance"
    /\ enabled' = SetEnabled([connect_btn |-> TRUE,
                              system_info_btn |-> FALSE, disconnect_btn |-> FALSE,
                              execute_btn |-> FALSE, send_cmd_btn |-> FALSE])

\* the handle is cleared only when close() did not raise
disconnect_effects_RaiseKeepsHandle(outcome) ==
    /\ sessions' = IF client # None /\ outcome = "closed"
                   THEN [sessions EXCEPT ![client] = "closed"]
                   ELSE sessions
    /\ client' = IF outcome = "raised" THEN client ELSE None
    /\ is_connected' = FALSE
    /\ connect_btn_text' = "Connect to Appliance"
    /\ enabled' = SetEnabled([connect_btn |-> TRUE, backup_btn |-> FALSE,
                              system_info_btn |-> FALSE, disconnect_btn |-> FALSE,
                              execute_btn |-> FALSE, send_cmd_btn |-> FALSE])

\* disconnect_from_appliance: what it assigns
disconnect_effects(outcome) ==
    /\ sessions' = IF client # None /\ outcome = "closed"
                   THEN [sessions EXCEPT ![client] = "closed"]
                   ELSE sessions
    /\ client' = None
    /\ is_connected' = FALSE
    /\ connect_btn_text' = "Connect to Appliance"
    /\ enabled' = SetEnabled([connect_btn |-> TRUE, backup_btn |-> FALSE,
                              system_info_btn |-> FALSE, disconnect_btn |-> FALSE,
                              execute_btn |-> FALSE, send_cmd_btn |-> FALSE])

\* disconnect_from_appliance (disconnect_btn)
disconnect_from_appliance ==
    /\ Alive
    /\ ui_pc = Idle
    /\ enabled.disconnect_btn
    /\ \E outcome \in CloseOutcomes : disconnect_effects(outcome)
    /\ shown' = Shows([status |-> "Disconnected from appliance"])
    /\ UNCHANGED << host_edit, user_edit, password_edit, port_spin, command_text, settings, connection_thread, conn,
                    executor_thread, terminal_executor, execs, monitoring_thread,
                    mon, ui_queue, ui_pc, stopped_pollers, trace, observed >>

\* the id of the next CommandExecutorThread object
NextExec ==
    IF \E t \in ExecIds : execs[t].pc = "unused"
    THEN CHOOSE t \in ExecIds :
             execs[t].pc = "unused" /\ \A r \in 1..(t - 1) : execs[r].pc # "unused"
    ELSE Cardinality(ExecIds) + 1

\* the lines of the command editor an operator may have typed
\* a batch of two commands among a comment line and an empty line
TypedBatch == << << " ", "c", " " >>, << " ", "#", "c" >>, <<>>, << "d", " ", "e" >> >>

BatchInputs == { << << " ", " " >>, << "#", "c" >> >>, TypedBatch }

\* a variant that looks for the '#' before stripping the line
NotComment_Unstripped(line) == ~(line # <<>> /\ Head(line) = "#")

\* `not cmd.strip().startswith('#')`
NotComment(line) == ~(Strip(line) # <<>> /\ Head(Strip(line)) = "#")

\* a variant that drops only the blank lines
KeepLine_CommentsToo(line) == Truthy(Strip(line))

KeepLine(line) == Truthy(Strip(line)) /\ NotComment(line)

StripLines(lines) == [i \in 1..Len(lines) |-> Strip(lines[i])]

\* the command list of execute_commands (lines 1503-1506)
FilterCommands(lines) == StripLines(SelectSeq(lines, KeepLine))

\* execute_commands (execute_btn)
execute_commands ==
    /\ Alive
    /\ ui_pc = Idle
    /\ enabled.execute_btn
    /\ \E reply \in { "Yes", "No" } :
         LET commands == FilterCommands(command_text)
         IN  IF ~is_connected
             THEN /\ shown' = Shows([dialog |-> "Not Connected"])
                  /\ UNCHANGED << enabled, executor_thread, execs >>
             ELSE IF commands = <<>>
             THEN /\ shown' = Shows([dialog |-> "No Commands"])
                  /\ UNCHANGED << enabled, executor_thread, execs >>
             ELSE IF reply # "Yes"
             THEN /\ shown' = Shows([dialog |-> "Confirm Execution"])
                  /\ UNCHANGED << enabled, executor_thread, execs >>
             ELSE /\ NextExec \in ExecIds
                  /\ shown' = Shows([dialog |-> "Confirm Execution"])
                  /\ enabled' = SetEnabled([execute_btn |-> FALSE, stop_btn |-> TRUE])
                  /\ executor_thread' = NextExec
                  /\ execs' = [execs EXCEPT ![NextExec] = NewExec("batch", client, commands)]
    /\ UNCHANGED << client, is_connected, connect_btn_text, host_edit, user_edit,
                    password_edit, port_spin, command_text, settings, connection_thread, conn, terminal_executor,
                    monitoring_thread, mon, sessions, ui_queue, ui_pc,
                    stopped_pollers, trace, observed >>

\* on_command_executed: the icon of what it adds to the results view
on_command_executed(success) ==
    shown' = Shows([results |-> IF success THEN "done" ELSE "failed"])

\* on_execution_finished: what it assigns
on_execution_finished ==
    /\ enabled' = SetEnabled([execute_btn |-> TRUE, stop_btn |-> FALSE])
    /\ shown' = Shows([status |-> "Command execution completed"])

\* what an operator may have typed in the terminal's input line
TerminalInputs == { << " " >>, << "c", " " >> }

\* execute_terminal_command (send_cmd_btn, or Return in terminal_input)
execute_terminal_command ==
    /\ Alive
    /\ ui_pc = Idle
    /\ enabled.send_cmd_btn \/ enabled.terminal_input
    /\ \E input \in TerminalInputs :
         LET command == Strip(input)
         IN  IF ~is_connected
             THEN /\ shown' = Shows([terminal |-> "Error: Not connected to appliance"])
                  /\ UNCHANGED << enabled, terminal_executor, execs >>
             ELSE IF ~Truthy(command)
             THEN /\ shown' = NothingShown
                  /\ UNCHANGED << enabled, terminal_executor, execs >>
             ELSE /\ NextExec \in ExecIds
                  /\ shown' = Shows([terminal |-> "> command"])
                  /\ enabled' = SetEnabled([send_cmd_btn |-> FALSE, terminal_input |-> FALSE])
                  /\ terminal_executor' = NextExec
                  /\ execs' = [execs EXCEPT ![NextExec] = NewExec("terminal", client, << command >>)]
    /\ UNCHANGED << client, is_connected, connect_btn_text, host_edit, user_edit,
                    password_edit, port_spin, command_text, settings, connection_thread, conn, executor_thread,
                    monitoring_thread, mon, sessions, ui_queue, ui_pc,
                    stopped_pollers, trace, observed >>

\* on_terminal_command_executed: what it appends to the terminal
on_terminal_command_executed(success) ==
    shown' = Shows([terminal |-> IF success THEN "Output" ELSE "Error: output"])

\* on_terminal_execution_finished: what it assigns
on_terminal_execution_finished ==
    /\ enabled' = SetEnabled([send_cmd_btn |-> TRUE, terminal_input |-> TRUE])
    /\ shown' = NothingShown

\* on_monitoring_started and on_monitoring_data: monitor_text.setPlainText
on_monitoring_data(data) ==
    shown' = Shows([monitor |-> data])

Waiting(then) == [op |-> "wait", then |-> then, step |-> 0, match |-> FALSE]
Sending(handler, step, match) == [op |-> "send", then |-> handler, step |-> step, match |-> match]
Closed == [op |-> "closed", then |-> "none", step |-> 0, match |-> FALSE]
Crashed == [op |-> "crashed", then |-> "none", step |-> 0, match |-> FALSE]

\* a variant that never finds the previous poller running
MonitorRunning_Never == FALSE

\* `self.monitoring_thread and self.monitoring_thread.isRunning()`
MonitorRunning == monitoring_thread # None /\ MonIsRunning

\* monitor_ipsec, monitor_system, monitor_interface (ipsec_btn, system_btn,
\* interface_btn), up to the wait() inside stop_monitoring()
monitor_start(kind) ==
    /\ Alive
    /\ ui_pc = Idle
    /\ IF client = None
       THEN /\ shown' = Shows([dialog |-> "Connection Required"])
            /\ UNCHANGED << monitoring_thread, mon, ui_pc >>
       ELSE /\ mon.id < MaxMonitors
            /\ shown' = NothingShown
            /\ IF MonitorRunning
               THEN /\ mon' = MonStopRequested(mon)
                    /\ ui_pc' = Waiting(kind)
                    /\ UNCHANGED monitoring_thread
               ELSE /\ mon' = NewMon(mon.id + 1, client, kind)
                    /\ monitoring_thread' = mon.id + 1
                    /\ UNCHANGED ui_pc
    /\ UNCHANGED << client, is_connected, connect_btn_text, enabled, host_edit,
                    user_edit, password_edit, port_spin, command_text, settings, connection_thread, conn,
                    executor_thread, terminal_executor, execs, sessions, ui_queue,
                    stopped_pollers, trace, observed >>

\* stop_monitoring (the monitor tab's STOP), up to the wait()
stop_monitoring ==
    /\ Alive
    /\ ui_pc = Idle
    /\ enabled.stop_btn
    /\ shown' = NothingShown
    /\ IF MonitorRunning
       THEN /\ mon' = MonStopRequested(mon)
            /\ ui_pc' = Waiting("stop")
       ELSE UNCHANGED << mon, ui_pc >>
    /\ UNCHANGED << client, is_connected, connect_btn_text, enabled, host_edit,
                    user_edit, password_edit, port_spin, command_text, settings, connection_thread, executor_thread,
                    terminal_executor, monitoring_thread, conn, execs, sessions,
                    ui_queue, stopped_pollers, trace, observed >>

\* closeEvent from `if self.terminal_executor ...` on (lines 2003-2011)
close_tail(execs_now, shown_now) ==
    /\ execs' = [t \in ExecIds |->
                   IF t = terminal_executor /\ ExecIsRunning(execs_now[t])
                   THEN [execs_now[t] EXCEPT !.pc = "terminated"]
                   ELSE execs_now[t]]
    /\ IF is_connected
       THEN /\ \E outcome \in CloseOutcomes : disconnect_effects(outcome)
            /\ shown' = [shown_now EXCEPT !.status = "Disconnected from appliance"]
       ELSE /\ shown' = shown_now
            /\ UNCHANGED << sessions, client, is_connected, connect_btn_text, enabled >>
    /\ ui_pc' = Closed

\* save_settings with the password written next to the geometry
save_settings_WithPassword(store) ==
    SetValue(SetValue(store, GeometryKey, "geometry"),
             << "connection", "password" >>, password_edit)

\* save_settings: the window geometry, the one value it writes
save_settings(store) == SetValue(store, GeometryKey, "geometry")

\* closeEvent, up to the wait() inside stop_monitoring()
closeEvent ==
    /\ Alive
    /\ ui_pc = Idle
    /\ \E reply \in { "Yes", "No" } :
         LET batch_running ==
                 executor_thread # None /\ ExecIsRunning(execs[executor_thread])
             execs1 == IF batch_running
                       THEN [execs EXCEPT ![executor_thread].pc = "terminated"]
                       ELSE execs
             shown1 == IF batch_running
                       THEN Shows([dialog |-> "Commands Running"])
                       ELSE NothingShown
         IN  /\ conn' = IF connection_thread # None /\ ConnIsRunning
                        THEN [conn EXCEPT !.pc = "terminated"]
                        ELSE conn
             /\ IF batch_running /\ reply = "No"
                THEN /\ shown' = shown1
                     /\ UNCHANGED << sessions, client, is_connected, connect_btn_text,
                                     enabled, execs, mon, ui_pc >>
                ELSE IF MonitorRunning
                THEN /\ mon' = MonStopRequested(mon)
                     /\ execs' = execs1
                     /\ ui_pc' = Waiting("close")
                     /\ shown' = shown1
                     /\ UNCHANGED << sessions, client, is_connected, connect_btn_text,
                                     enabled >>
                ELSE /\ close_tail(execs1, shown1)
                     /\ UNCHANGED mon
    /\ settings' = save_settings(settings)
    /\ UNCHANGED << host_edit, user_edit, password_edit, port_spin, command_text, connection_thread,
                    executor_thread, terminal_executor, monitoring_thread, ui_queue,
                    stopped_pollers, trace, observed >>

\* wait() returns, the poller's thread having finished: the handler that
\* called stop_monitoring() goes on to its end
UiWaitReturns ==
    /\ ui_pc.op = "wait"
    /\ ~MonIsRunning
    /\ stopped_pollers' = stopped_pollers \cup { mon.id }
    /\ IF ui_pc.then = "close"
       THEN /\ close_tail(execs, shown)
            /\ UNCHANGED << mon, monitoring_thread >>
       ELSE /\ IF ui_pc.then = "stop"
               THEN UNCHANGED << mon, monitoring_thread >>
               ELSE /\ mon' = NewMon(mon.id + 1, client, ui_pc.then)
                    /\ monitoring_thread' = mon.id + 1
            /\ ui_pc' = Idle
            /\ UNCHANGED << sessions, client, is_connected, connect_btn_text, enabled,
                            shown, execs >>
    /\ UNCHANGED << host_edit, user_edit, password_edit, port_spin, command_text, settings, connection_thread, conn,
                    executor_thread, terminal_executor, ui_queue, trace, observed >>

\* backup_appliance (backup_btn), up to its send; without a client line 1313
\* reads backup_file unassigned
backup_appliance ==
    /\ Alive
    /\ ui_pc = Idle
    /\ enabled.backup_btn
    /\ IF client # None
       THEN /\ shown' = Shows([status |-> "Launching backup..."])
            /\ ui_pc' = Sending("backup", 1, FALSE)
       ELSE /\ shown' = NothingShown
            /\ ui_pc' = Crashed
    /\ UNCHANGED << client, is_connected, connect_btn_text, enabled, host_edit,
                    user_edit, password_edit, port_spin, command_text, settings, connection_thread, conn,
                    executor_thread, terminal_executor, execs, monitoring_thread,
                    mon, sessions, ui_queue, stopped_pollers, trace, observed >>

\* show_system_info (system_info_btn), up to its first send
show_system_info ==
    /\ Alive
    /\ ui_pc = Idle
    /\ enabled.system_info_btn
    /\ IF client # None
       THEN /\ shown' = Shows([status |-> "Retrieving system information..."])
            /\ ui_pc' = Sending("system_info", 1, FALSE)
       ELSE /\ shown' = Shows([dialog |-> "System Information Failed",
                               status |-> "System information retrieval failed"])
            /\ UNCHANGED ui_pc
    /\ UNCHANGED << client, is_connected, connect_btn_text, enabled, host_edit,
                    user_edit, password_edit, port_spin, command_text, settings, connection_thread, conn,
                    executor_thread, terminal_executor, execs, monitoring_thread,
                    mon, sessions, ui_queue, stopped_pollers, trace, observed >>

\* get_full_rights and release_rights (get_full_rights_btn,
\* release_rights_btn), up to their send
rights(which) ==
    /\ Alive
    /\ ui_pc = Idle
    /\ ui_pc' = IF client # None THEN Sending(which, 1, FALSE) ELSE ui_pc
    /\ shown' = NothingShown
    /\ UNCHANGED << client, is_connected, connect_btn_text, enabled, host_edit,
                    user_edit, password_edit, port_spin, command_text, settings, connection_thread, executor_thread,
                    terminal_executor, monitoring_thread, conn, execs, mon,
                    sessions, ui_queue, stopped_pollers, trace, observed >>

get_full_rights == rights("get_full_rights")

release_rights == rights("release_rights")

\* a send_command called by a handler on the UI thread returns, and the
\* handler goes on to its next send or to its end
UiSendReturn ==
    /\ ui_pc.op = "send"
    /\ \E text \in ResultTexts, match \in BOOLEAN :
         CASE ui_pc.then = "backup" ->
                /\ ui_pc' = Idle
                /\ shown' = IF Contains(text, SuccessMarker)
                            THEN Shows([dialog |-> "Backup Created", status |-> "Backup created"])
                            ELSE Shows([dialog |-> "Backup Failed", status |-> "Backup failed"])
           [] ui_pc.then = "system_info" ->
                IF ui_pc.step = 1
                THEN /\ ui_pc' = Sending("system_info", 2, match)
                     /\ shown' = Shows([status |-> "Please wait..."])
                ELSE IF ui_pc.step = 2 /\ ~ui_pc.match
                THEN /\ ui_pc' = Crashed
                     /\ UNCHANGED shown
                ELSE IF ui_pc.step < 4
                THEN /\ ui_pc' = Sending("system_info", ui_pc.step + 1, ui_pc.match)
                     /\ UNCHANGED shown
                ELSE /\ ui_pc' = Idle
                     /\ shown' = Shows([dialog |-> "System Information",
                                        status |-> "System information retrieved"])
           [] ui_pc.then = "get_full_rights" ->
                /\ ui_pc' = Idle
                /\ shown' = Shows([terminal |-> "Private data access right granted",
                                   status |-> "Private data access right granted"])
           [] OTHER ->
                /\ ui_pc' = Idle
                /\ shown' = Shows([terminal |-> "Private data access right released"])
    /\ UNCHANGED << client, is_connected, connect_btn_text, enabled, host_edit,
                    user_edit, password_edit, port_spin, command_text, settings, connection_thread, conn,
                    executor_thread, terminal_executor, execs, monitoring_thread,
                    mon, sessions, ui_queue, stopped_pollers, trace, observed >>

\* a send_command called by a handler on the UI thread raises: no handler
\* catches it
UiSendRaise ==
    /\ ui_pc.op = "send"
    /\ ui_pc' = Crashed
    /\ UNCHANGED << gui_vars, conn, execs, mon, sessions, ui_queue, stopped_pollers,
                    trace, observed >>

\* the UI thread takes the oldest queued signal and runs its slot
UiDeliver ==
    /\ Alive
    /\ ui_pc = Idle
    /\ ui_queue # <<>>
    /\ ui_queue' = Tail(ui_queue)
    /\ LET h == Head(ui_queue)
       IN  CASE h.sig = "connected" ->
                  on_connection_result(h.arg[1])
             [] h.sig = "command_executed" ->
                  /\ IF execs[h.src].role = "terminal"
                     THEN on_terminal_command_executed(h.arg[3])
                     ELSE on_command_executed(h.arg[3])
                  /\ UNCHANGED << client, is_connected, connect_btn_text, enabled >>
             [] h.sig = "finished" ->
                  /\ IF execs[h.src].role = "terminal"
                     THEN on_terminal_execution_finished
                     ELSE on_execution_finished
                  /\ UNCHANGED << client, is_connected, connect_btn_text >>
             [] OTHER ->
                  /\ on_monitoring_data(h.arg)
                  /\ UNCHANGED << client, is_connected, connect_btn_text, enabled >>
    /\ UNCHANGED << host_edit, user_edit, password_edit, port_spin, command_text, settings, connection_thread, conn,
                    executor_thread, terminal_executor, execs, monitoring_thread,
                    mon, sessions, ui_pc, stopped_pollers, trace, observed >>

\* an operator types into one of the connection fields
FieldTexts == { <<>>, << " " >>, << "a" >>, << " ", "a" >> }

EditableFields == { "host_edit", "user_edit", "password_edit" }

edit_fields ==
    /\ Alive
    /\ ui_pc = Idle
    /\ \E field \in EditableFields, text \in FieldTexts :
         /\ host_edit' = IF field = "host_edit" THEN text ELSE host_edit
         /\ user_edit' = IF field = "user_edit" THEN text ELSE user_edit
         /\ password_edit' = IF field = "password_edit" THEN text ELSE password_edit
    /\ UNCHANGED << client, is_connected, connect_btn_text, enabled, port_spin, command_text, settings, shown,
                    connection_thread, conn, executor_thread, terminal_executor,
                    execs, monitoring_thread, mon, sessions, ui_queue, ui_pc,
                    stopped_pollers, trace, observed >>

\* the profile names an operator may type: plain, with a '/', and the word
\* the store uses for its name list
ProfileNames == { << "p" >>, << "p", "q" >>, << "list" >> }

\* what QInputDialog.getText returns: a name, or blanks
TypedNames == ProfileNames \cup { << " " >> }

\* what time.strftime returns at the moment of a save
SaveTimes == { "t1", "t2" }

\* `profile_name not in saved_profiles`, negated
AlreadySaved(profile_name, saved_profiles) == InList(profile_name, saved_profiles)

\* save_connection_info(profile_name) at the moment `now`
save_connection_info(profile_name, now) ==
    LET host == Strip(host_edit)
        port == port_spin
        user == Strip(user_edit)
        name == IF Truthy(profile_name) THEN profile_name ELSE << "default" >>
        written ==
            SetValue(SetValue(SetValue(SetValue(settings,
                ProfileKey(name, "host"), host),
                ProfileKey(name, "port"), port),
                ProfileKey(name, "user"), user),
                ProfileKey(name, "saved_date"), now)
        saved_profiles == get_saved_profiles(written)
    IN  IF ~(Truthy(host) /\ Truthy(user))
        THEN /\ shown' = Shows([dialog |-> "Missing Information"])
             /\ UNCHANGED settings
        ELSE /\ settings' = IF AlreadySaved(name, saved_profiles)
                            THEN written
                            ELSE SetValue(written, ListKey, Append(saved_profiles, name))
             /\ shown' = Shows([status |-> "Connection profile saved"])

\* save_connection_profile (save_profile_btn): the name dialog, then
\* save_connection_info
save_connection_profile ==
    /\ Alive
    /\ ui_pc = Idle
    /\ \E typed \in TypedNames, now \in SaveTimes :
         IF Truthy(Strip(typed))
         THEN save_connection_info(Strip(typed), now)
         ELSE /\ shown' = NothingShown
              /\ UNCHANGED settings
    /\ UNCHANGED << client, is_connected, connect_btn_text, enabled, host_edit,
                    user_edit, password_edit, port_spin, command_text, connection_thread, conn,
                    executor_thread, terminal_executor, execs, monitoring_thread,
                    mon, sessions, ui_queue, ui_pc, stopped_pollers, trace, observed >>

\* delete_connection_profile(profile_name)
delete_connection_profile(profile_name) ==
    LET saved_profiles == get_saved_profiles(settings)
        unlisted == IF InList(profile_name, saved_profiles)
                    THEN SetValue(settings, ListKey, ListRemove(saved_profiles, profile_name))
                    ELSE settings
    IN  /\ Alive
        /\ ui_pc = Idle
        /\ settings' = Remove(unlisted, ProfileSection(profile_name))
        /\ shown' = Shows([status |-> "Connection profile deleted"])
        /\ UNCHANGED << client, is_connected, connect_btn_text, enabled, host_edit,
                        user_edit, password_edit, port_spin, command_text, connection_thread,
                        conn, executor_thread, terminal_executor, execs,
                        monitoring_thread, mon, sessions, ui_queue, ui_pc,
                        stopped_pollers, trace, observed >>

\* delete_selected_profile (the profile manager's Delete): the selected item
\* of profile_list, which refresh_profile_list fills from get_saved_profiles,
\* and the confirmation
delete_selected_profile ==
    \E i \in 1..Len(get_saved_profiles(settings)), reply \in { "Yes", "No" } :
        IF reply = "Yes"
        THEN delete_connection_profile(get_saved_profiles(settings)[i])
        ELSE /\ Alive
             /\ ui_pc = Idle
             /\ shown' = Shows([dialog |-> "Confirm Deletion"])
             /\ UNCHANGED << client, is_connected, connect_btn_text, enabled, host_edit,
                             user_edit, password_edit, port_spin, command_text, settings,
                             connection_thread, conn, executor_thread,
                             terminal_executor, execs, monitoring_thread, mon,
                             sessions, ui_queue, ui_pc, stopped_pollers, trace,
                             observed >>

\* load_connection_profile with the port field left as it was
load_connection_profile_PortKept(profile_name) ==
    LET host == Value(settings, ProfileKey(profile_name, "host"), <<>>)
        user == Value(settings, ProfileKey(profile_name, "user"), <<>>)
    IN  /\ Alive
        /\ ui_pc = Idle
        /\ IF Truthy(host) /\ Truthy(user)
           THEN /\ host_edit' = host
                /\ user_edit' = user
                /\ shown' = Shows([status |-> "Loaded connection profile",
                                   returned |-> TRUE])
           ELSE /\ shown' = Shows([dialog |-> "Profile Error", returned |-> FALSE])
                /\ UNCHANGED << host_edit, user_edit >>
        /\ UNCHANGED << client, is_connected, connect_btn_text, enabled,
                        password_edit, port_spin, command_text, settings,
                        connection_thread, conn, executor_thread,
                        terminal_executor, execs, monitoring_thread, mon,
                        sessions, ui_queue, ui_pc, stopped_pollers, trace,
                        observed >>

\* load_connection_profile(profile_name); `returned` is the value it hands
\* to its caller
load_connection_profile(profile_name) ==
    LET host == Value(settings, ProfileKey(profile_name, "host"), <<>>)
        port == Value(settings, ProfileKey(profile_name, "port"), DefaultPort)
        user == Value(settings, ProfileKey(profile_name, "user"), <<>>)
    IN  /\ Alive
        /\ ui_pc = Idle
        /\ IF Truthy(host) /\ Truthy(user)
           THEN /\ host_edit' = host
                /\ port_spin' = port
                /\ user_edit' = user
                /\ shown' = Shows([status |-> "Loaded connection profile",
                                   returned |-> TRUE])
           ELSE /\ shown' = Shows([dialog |-> "Profile Error", returned |-> FALSE])
                /\ UNCHANGED << host_edit, port_spin, user_edit >>
        /\ UNCHANGED << client, is_connected, connect_btn_text, enabled,
                        password_edit, command_text, settings,
                        connection_thread, conn, executor_thread,
                        terminal_executor, execs, monitoring_thread, mon,
                        sessions, ui_queue, ui_pc, stopped_pollers, trace,
                        observed >>

\* load_connection_profile_dialog (load_profile_btn): the item chosen among
\* the saved names, or the dialog cancelled
load_connection_profile_dialog ==
    LET saved_profiles == get_saved_profiles(settings)
    IN  IF saved_profiles = <<>>
        THEN /\ Alive
             /\ ui_pc = Idle
             /\ shown' = Shows([dialog |-> "No Profiles"])
             /\ UNCHANGED << client, is_connected, connect_btn_text, enabled,
                             host_edit, user_edit, password_edit, port_spin,
                             command_text, settings, connection_thread, conn,
                             executor_thread, terminal_executor, execs,
                             monitoring_thread, mon, sessions, ui_queue, ui_pc,
                             stopped_pollers, trace, observed >>
        ELSE \E i \in 1..Len(saved_profiles), ok \in BOOLEAN :
                 IF ok /\ Truthy(saved_profiles[i])
                 THEN load_connection_profile(saved_profiles[i])
                 ELSE /\ Alive
                      /\ ui_pc = Idle
                      /\ shown' = NothingShown
                      /\ UNCHANGED << client, is_connected, connect_btn_text, enabled,
                             host_edit, user_edit, password_edit, port_spin,
                             command_text, settings, connection_thread, conn,
                             executor_thread, terminal_executor, execs,
                             monitoring_thread, mon, sessions, ui_queue, ui_pc,
                             stopped_pollers, trace, observed >>

\* load_selected_profile (the profile manager's Load): the selected item of
\* profile_list
load_selected_profile ==
    \E i \in 1..Len(get_saved_profiles(settings)) :
        load_connection_profile(get_saved_profiles(settings)[i])

\* the operator sets the port field
edit_port ==
    /\ Alive
    /\ ui_pc = Idle
    /\ \E port \in Ports : port_spin' = port
    /\ UNCHANGED << client, is_connected, connect_btn_text, enabled, host_edit,
                    user_edit, password_edit, command_text, settings, shown,
                    connection_thread, conn, executor_thread, terminal_executor,
                    execs, monitoring_thread, mon, sessions, ui_queue, ui_pc,
                    stopped_pollers, trace, observed >>

\* ------------------------------------------------------- specifications
\* StormshieldGUI.__init__, but for the connection fields
GuiInit ==
    /\ client = None
    /\ is_connected = FALSE
    /\ connect_btn_text = "Connect to Appliance"
    /\ enabled = EnabledAfterInit
    /\ port_spin = DefaultPort
    /\ shown = Shows([status |-> "Ready", terminal |-> "Welcome"])
    /\ connection_thread = None
    /\ conn = NoConn
    /\ executor_thread = None
    /\ terminal_executor = None
    /\ execs = [t \in 1..MaxExec |-> UnusedExec]
    /\ monitoring_thread = None
    /\ mon = NoMon
    /\ sessions = [s \in 1..MaxSessions |-> "unused"]
    /\ ui_queue = <<>>
    /\ ui_pc = Idle
    /\ stopped_pollers = {}
    /\ trace = <<>>

\* the fields after an operator has filled them in
FieldsFilled ==
    /\ host_edit = << "a" >>
    /\ user_edit = << "a" >>
    /\ password_edit = << "a" >>

\* the window as on_connection_result(True, ...) leaves it, on session 1
ConnectedInit ==
    /\ FieldsFilled
    /\ client = 1
    /\ is_connected = TRUE
    /\ connect_btn_text = "Connected"
    /\ settings = NoSettings
    /\ port_spin = DefaultPort
    /\ connection_thread = 1
    /\ conn = [NewConn(<< "a" >>, << "a" >>, << "a" >>) EXCEPT !.pc = "finished", !.client = 1]
    /\ monitoring_thread = None
    /\ mon = NoMon
    /\ sessions = [s \in 1..MaxSessions |-> IF s = 1 THEN "open" ELSE "unused"]
    /\ ui_queue = <<>>
    /\ ui_pc = Idle
    /\ stopped_pollers = {}
    /\ trace = <<>>

EnabledWhenConnected ==
    [connect_btn |-> FALSE, disconnect_btn |-> TRUE, backup_btn |-> TRUE,
     system_info_btn |-> TRUE, execute_btn |-> TRUE, send_cmd_btn |-> TRUE]
        @@ EnabledAfterInit

\* One dispatcher run, observed: the window is connected, and
\* execute_commands or execute_terminal_command has just started dispatcher 1
\* on a command list of at most MaxCmds commands.
DispatcherInit ==
    /\ ConnectedInit
    /\ observed = Exec(1)
    /\ \E commands \in SeqsUpTo(CommandTexts, MaxCmds) \ { <<>> }, role \in { "batch", "terminal" } :
         /\ role = "terminal" => Len(commands) = 1
         /\ command_text = IF role = "batch" THEN commands ELSE <<>>
         /\ execs = [t \in 1..MaxExec |->
                       IF t = 1 THEN NewExec(role, 1, commands) ELSE UnusedExec]
         /\ executor_thread = IF role = "batch" THEN 1 ELSE None
         /\ terminal_executor = IF role = "terminal" THEN 1 ELSE None
         /\ shown = IF role = "batch"
                    THEN Shows([dialog |-> "Confirm Execution"])
                    ELSE Shows([terminal |-> "> command"])
         /\ enabled = IF role = "batch"
                      THEN [execute_btn |-> FALSE, stop_btn |-> TRUE] @@ EnabledWhenConnected
                      ELSE [send_cmd_btn |-> FALSE, terminal_input |-> FALSE]
                               @@ EnabledWhenConnected

DispatcherNext ==
    \/ \E t \in ExecIds : ExecSend(t)
    \/ \E t \in ExecIds : ExecReturn(t)
    \/ \E t \in ExecIds : ExecRaise(t)
    \/ \E t \in ExecIds : ExecProgress(t)
    \/ \E t \in ExecIds : ExecFinish(t)
    \/ UiDeliver

SpecDispatcher == DispatcherInit /\ [][DispatcherNext]_vars

\* The monitor tab of a connected window: pollers are started and stopped
\* while their signals wait in the UI thread's queue.
MonitorInit ==
    /\ ConnectedInit
    /\ enabled = EnabledWhenConnected
    /\ shown = Shows([status |-> "Connected to host"])
    /\ executor_thread = None
    /\ terminal_executor = None
    /\ execs = [t \in 1..MaxExec |-> UnusedExec]
    /\ command_text = <<>>
    /\ observed = Nobody

MonitorNext ==
    \/ \E kind \in MonitorKinds : monitor_start(kind)
    \/ stop_monitoring
    \/ UiWaitReturns
    \/ UiDeliver
    \/ MonBegin
    \/ MonTest
    \/ MonSend
    \/ MonReturn
    \/ MonRaise
    \/ MonWake

SpecMonitor == MonitorInit /\ [][MonitorNext]_vars

\* The monitor tab of a connected window, the first poller observed for
\* MaxCycles cycles.
PollerInit ==
    /\ ConnectedInit
    /\ enabled = EnabledWhenConnected
    /\ shown = Shows([status |-> "Connected to host"])
    /\ executor_thread = None
    /\ terminal_executor = None
    /\ execs = [t \in 1..MaxExec |-> UnusedExec]
    /\ command_text = <<>>
    /\ observed = Poller(1)

SpecPoller == PollerInit /\ [][MonitorNext]_vars

\* the connection fields after __init__: empty
FieldsEmpty ==
    /\ host_edit = <<>>
    /\ user_edit = <<>>
    /\ password_edit = <<>>

\* The whole window, from the moment an operator has filled in the
\* connection fields of a new window.
Init ==
    /\ GuiInit /\ FieldsFilled /\ command_text = TypedBatch /\ settings = NoSettings
    /\ observed = Nobody

Next ==
    \/ connect_to_appliance
    \/ disconnect_from_appliance
    \/ execute_commands
    \/ execute_terminal_command
    \/ \E kind \in MonitorKinds : monitor_start(kind)
    \/ stop_monitoring
    \/ backup_appliance
    \/ show_system_info
    \/ get_full_rights
    \/ release_rights
    \/ closeEvent
    \/ UiWaitReturns
    \/ UiSendReturn
    \/ UiSendRaise
    \/ UiDeliver
    \/ ConnBegin
    \/ ConnTypeError
    \/ ConnSucceed
    \/ ConnFail
    \/ \E t \in ExecIds : ExecSend(t)
    \/ \E t \in ExecIds : ExecReturn(t)
    \/ \E t \in ExecIds : ExecRaise(t)
    \/ \E t \in ExecIds : ExecProgress(t)
    \/ \E t \in ExecIds : ExecFinish(t)
    \/ MonBegin
    \/ MonTest
    \/ MonSend
    \/ MonReturn
    \/ MonRaise
    \/ MonWake

Spec == Init /\ [][Next]_vars

\* The connection tab alone, from a new window: an operator types into the
\* fields, asks to connect and to disconnect, and closes the window.
\* The commands and terminal tabs of a connected window that can be
\* disconnected and connected again: MaxBatchExec dispatcher threads and
\* MaxBatchSessions sessions in one behaviour.
BatchInit ==
    /\ FieldsFilled
    /\ client = 1
    /\ is_connected = TRUE
    /\ connect_btn_text = "Connected"
    /\ settings = NoSettings
    /\ port_spin = DefaultPort
    /\ enabled = EnabledWhenConnected
    /\ shown = Shows([status |-> "Connected to host"])
    /\ connection_thread = 1
    /\ conn = [NewConn(<< "a" >>, << "a" >>, << "a" >>) EXCEPT !.pc = "finished", !.client = 1]
    /\ executor_thread = None
    /\ terminal_executor = None
    /\ execs = [t \in 1..MaxBatchExec |-> UnusedExec]
    /\ command_text \in BatchInputs
    /\ monitoring_thread = None
    /\ mon = NoMon
    /\ sessions = [s \in 1..MaxBatchSessions |-> IF s = 1 THEN "open" ELSE "unused"]
    /\ ui_queue = <<>>
    /\ ui_pc = Idle
    /\ stopped_pollers = {}
    /\ trace = <<>>
    /\ observed = Nobody

BatchNext ==
    \/ execute_commands
    \/ execute_terminal_command
    \/ disconnect_from_appliance
    \/ connect_to_appliance
    \/ UiDeliver
    \/ ConnBegin
    \/ ConnTypeError
    \/ ConnSucceed
    \/ ConnFail
    \/ \E t \in ExecIds : ExecSend(t)
    \/ \E t \in ExecIds : ExecReturn(t)
    \/ \E t \in ExecIds : ExecRaise(t)
    \/ \E t \in ExecIds : ExecProgress(t)
    \/ \E t \in ExecIds : ExecFinish(t)

SpecBatch == BatchInit /\ [][BatchNext]_vars

\* the lines an operator may type into the command editor: empty, blank,
\* commands with and without blanks around them, comments, a command with
\* an inner '#'
EditorLines ==
    { <<>>, << " " >>, << "c" >>, << " ", "c", " " >>, << "#", "c" >>,
      << " ", "#", "c" >>, << "c", "#" >>, << "d", " ", "e" >> }

\* a batch of a command, a comment, an empty line and an unknown command
ScenarioBatch ==
    << << "config network interface show" >>, << "#", "comment" >>, <<>>, << "bogus_cmd" >> >>

\* The commands tab of a connected window whose editor holds any text of at
\* most MaxLines lines, or ScenarioBatch; the dispatcher that execute_commands starts is
\* observed.
FilterInit ==
    /\ ConnectedInit
    /\ enabled = EnabledWhenConnected
    /\ shown = Shows([status |-> "Connected to host"])
    /\ executor_thread = None
    /\ terminal_executor = None
    /\ execs = [t \in 1..MaxExec |-> UnusedExec]
    /\ command_text \in SeqsUpTo(EditorLines, MaxLines) \cup { ScenarioBatch }
    /\ observed = Exec(1)

FilterNext ==
    \/ execute_commands
    \/ UiDeliver
    \/ \E t \in ExecIds : ExecSend(t)
    \/ \E t \in ExecIds : ExecReturn(t)
    \/ \E t \in ExecIds : ExecRaise(t)
    \/ \E t \in ExecIds : ExecProgress(t)
    \/ \E t \in ExecIds : ExecFinish(t)

SpecFilter == FilterInit /\ [][FilterNext]_vars

\* The profile dialogs of a window whose store is empty at first.
ProfilesInit ==
    /\ GuiInit /\ FieldsFilled /\ command_text = <<>> /\ settings = NoSettings
    /\ observed = Nobody

ProfilesNext ==
    \/ edit_fields
    \/ save_connection_profile
    \/ delete_selected_profile

SpecProfiles == ProfilesInit /\ [][ProfilesNext]_vars

\* The same with delete_connection_profile called for any name, listed or
\* not.
ProfileStoreNext ==
    \/ edit_fields
    \/ save_connection_profile
    \/ \E profile_name \in ProfileNames : delete_connection_profile(profile_name)

SpecProfileStore == ProfilesInit /\ [][ProfileStoreNext]_vars

\* the store with the values of one profile's record written
PutRecord(store, profile_name, values) ==
    [key \in DOMAIN store \cup { ProfileKey(profile_name, field) : field \in DOMAIN values } |->
        IF \E field \in DOMAIN values : key = ProfileKey(profile_name, field)
        THEN values[CHOOSE field \in DOMAIN values : key = ProfileKey(profile_name, field)]
        ELSE store[key]]

\* stores an earlier run can have left, or that were edited by hand: one
\* complete profile; two complete profiles, the second's name below the
\* first's; a list that names a profile without host, one without user and
\* one with an empty host
StoredBefore ==
    LET full == [host |-> << "a" >>, port |-> 8443, user |-> << "a" >>, saved_date |-> "t1"]
        no_host == [port |-> 8443, user |-> << "a" >>, saved_date |-> "t1"]
        no_user == [host |-> << "a" >>, port |-> 8443, saved_date |-> "t1"]
        empty_host == [host |-> <<>>, port |-> 8443, user |-> << "a" >>, saved_date |-> "t1"]
    IN  { SetValue(PutRecord(NoSettings, << "p" >>, full), ListKey, << << "p" >> >>),
          SetValue(PutRecord(PutRecord(NoSettings, << "p" >>, full), << "p", "q" >>, full),
                   ListKey, << << "p" >>, << "p", "q" >> >>),
          SetValue(PutRecord(PutRecord(PutRecord(NoSettings, << "p" >>, no_host),
                                       << "list" >>, no_user),
                             << "p", "q" >>, empty_host),
                   ListKey, << << "p" >>, << "list" >>, << "p", "q" >> >>) }

\* The profile dialogs of a window that found profiles in its store: the
\* fields are edited, profiles are loaded and deleted.
LoadInit ==
    /\ GuiInit /\ FieldsFilled /\ command_text = <<>>
    /\ settings \in StoredBefore
    /\ observed = Nobody

LoadNext ==
    \/ edit_fields
    \/ edit_port
    \/ load_connection_profile_dialog
    \/ load_selected_profile
    \/ delete_selected_profile

SpecLoad == LoadInit /\ [][LoadNext]_vars

\* The window with the profile handlers, the connection and the close: the
\* password typed is a text no other field holds.
SecretPassword == << "s3cret" >>

SettingsInit ==
    /\ GuiInit
    /\ host_edit = << "a" >>
    /\ user_edit = << "a" >>
    /\ password_edit = SecretPassword
    /\ command_text = <<>>
    /\ settings = NoSettings
    /\ observed = Nobody

SettingsNext ==
    \/ connect_to_appliance
    \/ disconnect_from_appliance
    \/ closeEvent
    \/ UiDeliver
    \/ ConnBegin
    \/ ConnTypeError
    \/ ConnSucceed
    \/ ConnFail
    \/ save_connection_profile
    \/ load_connection_profile_dialog
    \/ load_selected_profile
    \/ delete_selected_profile

SpecSettings == SettingsInit /\ [][SettingsNext]_vars

\* The window from its start to a batch: a connect request, its result, a
\* batch of the commands typed, with the history of the connection thread or
\* of the batch's dispatcher.
AttemptInit ==
    /\ GuiInit /\ FieldsFilled /\ command_text = TypedBatch /\ settings = NoSettings
    /\ observed \in { Connector, Exec(1) }

AttemptNext ==
    \/ connect_to_appliance
    \/ disconnect_from_appliance
    \/ execute_commands
    \/ UiDeliver
    \/ ConnBegin
    \/ ConnTypeError
    \/ ConnSucceed
    \/ ConnFail
    \/ \E t \in ExecIds : ExecSend(t)
    \/ \E t \in ExecIds : ExecReturn(t)
    \/ \E t \in ExecIds : ExecRaise(t)
    \/ \E t \in ExecIds : ExecProgress(t)
    \/ \E t \in ExecIds : ExecFinish(t)

SpecAttempt == AttemptInit /\ [][AttemptNext]_vars

ConnectInit ==
    /\ GuiInit /\ FieldsEmpty /\ command_text = <<>> /\ settings = NoSettings
    /\ observed = Nobody

ConnectNext ==
    \/ edit_fields
    \/ connect_to_appliance
    \/ disconnect_from_appliance
    \/ closeEvent
    \/ UiDeliver
    \/ ConnBegin
    \/ ConnTypeError
    \/ ConnSucceed
    \/ ConnFail

SpecConnect == ConnectInit /\ [][ConnectNext]_vars

\* ------------------------------------------------ claims: the dispatcher
ObservedExec == execs[observed.id]

RunFinished == observed.kind = "exec" /\ ObservedExec.pc = "finished"

\* C1: a finished run over N commands has emitted exactly N per-command
\* events, the i-th carrying the i-th command, and its last progress value
\* is 100.
C1_EventsInOrderProgress100 ==
    RunFinished =>
        /\ Len(Events) = Len(ObservedExec.commands)
        /\ \A i \in 1..Len(Events) : Events[i].event[1] = ObservedExec.commands[i]
        /\ Progresses # <<>>
        /\ Progresses[Len(Progresses)].value = 100

\* a finished run of MaxCmds commands in which one send returned the success
\* marker, one returned without it and one raised
C1_Witness ==
    /\ RunFinished
    /\ Len(ObservedExec.commands) = MaxCmds
    /\ ObservedExec.commands[1] # ObservedExec.commands[2]
    /\ \E i \in 1..Len(Outcomes) : Outcomes[i].ev = "raise"
    /\ \E i \in 1..Len(Outcomes) :
         Outcomes[i].ev = "return" /\ Contains(Outcomes[i].text, SuccessMarker)
    /\ \E i \in 1..Len(Outcomes) :
         Outcomes[i].ev = "return" /\ ~Contains(Outcomes[i].text, SuccessMarker)

\* C2: the success flag of each per-command event is true exactly when the
\* send returned a text that contains the marker '100 code='; a text without
\* it and a raised send give a false flag.
C2_FlagIffMarker ==
    observed.kind = "exec" =>
        \A i \in 1..Len(Events) :
            Events[i].event[3] =
                (Outcomes[i].ev = "return" /\ Contains(Outcomes[i].text, SuccessMarker))

\* C3: a raised send gives, for that command, an event with a false flag whose
\* text is "Error: " and the exception's message, and a finished run has sent
\* every command of its list, whichever sends raised.
C3_RaiseReportedRunGoesOn ==
    observed.kind = "exec" =>
        /\ \A i \in 1..Len(Events) :
             Outcomes[i].ev = "raise" =>
                 Events[i].event = << Sends[i].cmd, << "Error: " >> \o Outcomes[i].text, FALSE >>
        /\ RunFinished =>
             /\ Len(Sends) = Len(ObservedExec.commands)
             /\ \A i \in 1..Len(Sends) : Sends[i].cmd = ObservedExec.commands[i]

\* a finished run whose first send raised and which sent more commands after it
C3_Witness ==
    /\ RunFinished
    /\ Len(Sends) = MaxCmds
    /\ Outcomes[1].ev = "raise"
    /\ Events[1].event[3] = FALSE

\* ---------------------------------------------------- claims: the poller
\* the UI thread runs on_monitoring_data for the oldest queued signal
DeliversSnapshot ==
    /\ ui_pc = Idle
    /\ ui_queue # <<>>
    /\ Head(ui_queue).sig = "monitoring_data"
    /\ ui_queue' = Tail(ui_queue)

\* C4: once stop_monitoring has returned for a poller, on_monitoring_data is
\* not run again for a snapshot of that poller.
C4_NoSnapshotAfterStopReturned ==
    [][DeliversSnapshot => Head(ui_queue).src \notin stopped_pollers]_vars

\* C5: once a stop has been requested of a running poller (the UI thread is
\* inside stop_monitoring), the poller passes its loop test into no further
\* cycle, whatever it was doing when the request came (a cycle already past
\* its loop test may end).
C5_StopRequestEndsLoop ==
    [][ui_pc.op = "wait" => ~(mon.pc = "test" /\ mon'.pc = "cycle")]_vars

\* --------------------------------------------------- claims: the session
\* the workers that have a send in flight on session s
SendingOn(s) ==
    { Exec(t) : t \in { u \in ExecIds : execs[u].pc = "sending" /\ execs[u].client = s } }
        \cup (IF mon.pc = "sending" /\ mon.client = s THEN { Poller(mon.id) } ELSE {})

\* C6: at most one worker among the batch dispatcher, the terminal executor
\* and the monitor poller has a send in flight on the active session.
C6_OneSendOnActiveSession ==
    client # None => Cardinality(SendingOn(client)) <= 1

\* the session state: Connecting from the connect request until its result
\* is handled
SessionState ==
    IF is_connected THEN "Connected"
    ELSE IF connect_btn_text = "Connecting..." THEN "Connecting"
    ELSE "Disconnected"

\* a handler of an operation that sends commands runs
SendingOperation ==
    \/ execute_commands
    \/ execute_terminal_command
    \/ \E kind \in MonitorKinds : monitor_start(kind)
    \/ show_system_info
    \/ backup_appliance

NotConnectedReported ==
    \/ shown.dialog \in { "Not Connected", "Connection Required", "System Information Failed" }
    \/ shown.terminal = "Error: Not connected to appliance"

SessionTransitions ==
    { << "Disconnected", "Connecting" >>, << "Connecting", "Connected" >>,
      << "Connecting", "Disconnected" >>, << "Connected", "Disconnected" >> }

\* the UI thread runs on_connection_result(success, ...)
ResultHandled(success) ==
    /\ ui_pc = Idle
    /\ ui_queue # <<>>
    /\ Head(ui_queue).sig = "connected"
    /\ Head(ui_queue).arg[1] = success
    /\ ui_queue' = Tail(ui_queue)

\* closeEvent runs to its end: at once, or after its wait for the poller
WindowCloses ==
    \/ closeEvent
    \/ ui_pc.op = "wait" /\ ui_pc.then = "close" /\ ui_pc' = Closed

\* C8: the session state changes only along Disconnected -> Connecting (a
\* connect request), Connecting -> Connected (a success result),
\* Connecting -> Disconnected (a failure result) and Connected ->
\* Disconnected (disconnect, or the window closing); a failure result leaves
\* the state Disconnected and connect_btn enabled.
C8_SessionStateTransitions ==
    [][/\ SessionState' # SessionState =>
            /\ << SessionState, SessionState' >> \in SessionTransitions
            /\ SessionState' = "Connecting" => connect_to_appliance
            /\ SessionState' = "Connected" => ResultHandled(TRUE)
            /\ SessionState = "Connecting" => ResultHandled(TRUE) \/ ResultHandled(FALSE)
            /\ SessionState = "Connected" => disconnect_from_appliance \/ WindowCloses
       /\ ResultHandled(FALSE) =>
            /\ SessionState' = "Disconnected"
            /\ enabled'.connect_btn]_vars

\* a session was connected and closed, and a later attempt has failed
C8_Witness ==
    /\ sessions[1] = "closed"
    /\ SessionState = "Disconnected"
    /\ shown.status = "Connection failed"
    /\ enabled.connect_btn

\* a field's text is empty or only whitespace
Blank(text) == \A i \in 1..Len(text) : text[i] = " "

\* connect_to_appliance starts no attempt
NoAttempt ==
    /\ conn' = conn
    /\ connection_thread' = connection_thread
    /\ SessionState' = "Disconnected"

\* connect_to_appliance starts an attempt
AttemptStarted ==
    /\ conn'.pc = "started"
    /\ connection_thread' # None
    /\ SessionState' = "Connecting"

\* C9 as stated: a connect request with a blank host, username or password
\* (empty or only whitespace) starts no attempt and leaves the state
\* Disconnected; with all three non-blank it moves the state to Connecting.
C9_BlankFieldNoAttempt ==
    [][connect_to_appliance =>
          IF Blank(host_edit) \/ Blank(user_edit) \/ Blank(password_edit)
          THEN NoAttempt
          ELSE AttemptStarted]_vars

\* C9 as the code has it: a connect request with a blank host or username, or
\* with an empty password, starts no attempt and leaves the state
\* Disconnected; any other request, a password of only whitespace included,
\* moves the state to Connecting.
C9_BlankHostUserEmptyPassword ==
    [][connect_to_appliance =>
          IF Blank(host_edit) \/ Blank(user_edit) \/ password_edit = <<>>
          THEN NoAttempt
          ELSE AttemptStarted]_vars

\* an attempt runs with a password of only whitespace
C9_Witness ==
    /\ SessionState = "Connecting"
    /\ conn.pc = "started"
    /\ conn.password = << " " >>
    /\ conn.host = << "a" >>

\* C10: a disconnect request in state Connected ends with the state
\* Disconnected, the handle cleared and the UI thread back in its event loop,
\* whatever close() did.
C10_DisconnectAlwaysClears ==
    [][(SessionState = "Connected" /\ disconnect_from_appliance) =>
          /\ SessionState' = "Disconnected"
          /\ client' = None
          /\ ~is_connected'
          /\ ui_pc' = Idle]_vars

\* disconnected although close() raised or was absent: the session is open
C10_Witness ==
    /\ SessionState = "Disconnected"
    /\ client = None
    /\ sessions[1] = "open"
    /\ shown.status = "Disconnected from appliance"

\* ------------------------------------------- claims: the poller's cycles
\* the trace positions where the observed poller entered a cycle
CycleStarts == { i \in 1..Len(trace) : IsCycle(trace[i]) }

\* where the cycle entered at position i ends: before the next loop test
\* recorded, or at the end of the trace
CycleEnd(i) ==
    LET later == { j \in (i + 1)..Len(trace) : trace[j].ev \in { "cycle", "finished" } }
    IN  IF later = {} THEN Len(trace)
        ELSE (CHOOSE j \in later : \A k \in later : j <= k) - 1

\* what the observed poller did in the cycle entered at position i
CycleOf(i) == SubSeq(trace, i + 1, CycleEnd(i))

\* the cycle has published its snapshot
CycleDone(c) == c # <<>> /\ IsSnapshot(c[Len(c)])

RaisedIn(c) == \E k \in 1..Len(c) : c[k].ev = "raise"

\* the sends, returns and snapshot of a cycle of the observed kind whose
\* sends return: one send, or for ipsec two, and one snapshot of the outputs
PlainCycle(c) ==
    IF mon.monitor_type = "ipsec"
    THEN /\ Len(c) = 5
         /\ c[1] = [ev |-> "send", cmd |-> "monitor getikesa"]
         /\ c[2].ev = "return"
         /\ c[3] = [ev |-> "send", cmd |-> "monitor getsa"]
         /\ c[4].ev = "return"
         /\ c[5] = [ev |-> "snapshot", data |-> c[2].text \o << "\n" >> \o c[4].text]
    ELSE /\ Len(c) = 3
         /\ c[1].ev = "send"
         /\ c[2].ev = "return"
         /\ c[3] = [ev |-> "snapshot", data |-> c[2].text]

ObservedPoller == observed.kind = "mon" /\ mon.id = observed.id

\* C11 as stated: every cycle of kind ipsec sends 'monitor getikesa' then
\* 'monitor getsa' and publishes one snapshot, the first output, a newline
\* and the second output; every cycle of another kind sends once and
\* publishes one snapshot.
C11_EveryCycleSendsAndPublishes ==
    ObservedPoller =>
        \A i \in CycleStarts : CycleDone(CycleOf(i)) => PlainCycle(CycleOf(i))

\* C11 as the code has it: a cycle whose sends all return is as stated; a
\* cycle in which a send raises makes no send after it and publishes one
\* snapshot, so an ipsec cycle whose first send raises has sent once.
C11_CycleSendsUnlessRaised ==
    ObservedPoller =>
        \A i \in CycleStarts :
            LET c == CycleOf(i)
            IN  /\ Len(SelectSeq(c, IsSnapshot)) <= 1
                /\ CycleDone(c) =>
                     IF RaisedIn(c)
                     THEN /\ c[Len(c) - 1].ev = "raise"
                          /\ Len(SelectSeq(c, IsSend)) = (Len(c) - 1) \div 2
                          /\ \A k \in 1..(Len(c) - 2) : c[k].ev \in { "send", "return" }
                     ELSE PlainCycle(c)

\* an ipsec poller has published the snapshot of a cycle of two sends, and
\* then one of a cycle whose first send raised
C11_Witness ==
    /\ ObservedPoller
    /\ mon.monitor_type = "ipsec"
    /\ Cardinality(CycleStarts) = 2
    /\ \E i \in CycleStarts, j \in CycleStarts :
         /\ i < j
         /\ CycleDone(CycleOf(i)) /\ ~RaisedIn(CycleOf(i))
         /\ CycleOf(i)[2].text # CycleOf(i)[4].text
         /\ CycleDone(CycleOf(j)) /\ Len(CycleOf(j)) = 3 /\ RaisedIn(CycleOf(j))

\* ------------------------------------------ claims: one poller at a time
\* The window holds one MonitoringThread reference; `mon` is the thread it
\* refers to, and a step that changes mon.id is the creation and start of
\* the next one.
PollerCreated == mon'.id # mon.id

\* C12: a new poller is created and started only when the thread of the
\* previous one has finished (or there was none), so that at most one poller
\* runs at any time; a poller found running is first asked to stop and
\* waited for.
C12_NewPollerOnlyAfterOldFinished ==
    [][PollerCreated =>
         /\ mon.pc \in { "none", "finished" }
         /\ mon.pc = "finished" => ~mon.is_running
         /\ mon'.id = mon.id + 1 /\ mon'.pc = "started"]_vars

\* the second poller runs, started while the first was running: the first
\* was stopped and waited for
C12_Witness ==
    /\ mon.id = 2
    /\ mon.pc \in { "test", "cycle", "sending", "sleep" }
    /\ stopped_pollers = { 1 }
    /\ ui_pc = Idle

\* ---------------------------------------------- claims: the batch workers
\* the thread self.executor_thread refers to is running
BatchRunning == executor_thread # None /\ ExecIsRunning(execs[executor_thread])

\* the thread self.terminal_executor refers to is running
TerminalRunning == terminal_executor # None /\ ExecIsRunning(execs[terminal_executor])

\* C13: while a batch run is in progress the operator can request its early
\* termination, that is, the Stop Execution button, the one trigger of
\* stop_execution, is enabled.
C13_StopRequestableWhileBatchRuns == BatchRunning => enabled.exec_stop_btn

\* the running CommandExecutorThread objects created by execute_commands
\* (role "batch") or by execute_terminal_command (role "terminal")
RunningOfRole(role) == { t \in ExecIds : execs[t].role = role /\ ExecIsRunning(execs[t]) }

\* C14: while a batch dispatcher is in flight the execute trigger is
\* disabled, while a terminal worker is in flight the terminal's send trigger
\* is disabled, and so at most one batch dispatcher thread and at most one
\* terminal executor thread are running, whatever the operator has done.
C14_OneBatchOneTerminalThread ==
    /\ RunningOfRole("batch") # {} => ~enabled.execute_btn
    /\ RunningOfRole("terminal") # {} => ~enabled.send_cmd_btn
    /\ Cardinality(RunningOfRole("batch")) <= 1
    /\ Cardinality(RunningOfRole("terminal")) <= 1

\* ------------------------------------------------- claims: the progress
\* C15: the progress values one dispatcher run has emitted are between 0
\* and 100 and never decrease.
C15_ProgressMonotoneInRange ==
    observed.kind = "exec" =>
        /\ \A i \in 1..Len(Progresses) : Progresses[i].value \in 0..100
        /\ \A i \in 1..Len(Progresses), j \in 1..Len(Progresses) :
             i < j => Progresses[i].value <= Progresses[j].value

\* a finished run of MaxCmds commands, one of whose sends raised, has emitted
\* MaxCmds progress values, the first below the last
C15_Witness ==
    /\ RunFinished
    /\ Len(Progresses) = MaxCmds
    /\ Progresses[1].value < Progresses[MaxCmds].value
    /\ \E i \in 1..Len(Outcomes) : Outcomes[i].ev = "raise"

\* --------------------------------------------- claims: the command list
\* the line has a character that is not a blank
HasText(line) == \E i \in 1..Len(line) : line[i] # " "

FirstText(line) == CHOOSE i \in 1..Len(line) : line[i] # " " /\ \A j \in 1..(i - 1) : line[j] = " "
LastText(line) == CHOOSE i \in 1..Len(line) : line[i] # " " /\ \A j \in (i + 1)..Len(line) : line[j] = " "

\* the line without the blanks before its first and after its last character
Trimmed(line) == SubSeq(line, FirstText(line), LastText(line))

\* the line is not blank and its first non-blank character is not '#'
IsCommandLine(line) == HasText(line) /\ line[FirstText(line)] # "#"

\* the lines that are commands, trimmed, in the order of the text
CommandLines(lines) ==
    LET kept == SelectSeq(lines, IsCommandLine)
    IN  [k \in 1..Len(kept) |-> Trimmed(kept[k])]

\* C16: the command list execute_commands hands to the dispatcher is the
\* editor's lines, stripped, in their order, without the blank lines and the
\* lines whose first non-blank character is '#'; when that list is empty no
\* dispatcher is started and nothing is sent.
C16_DispatcherGetsFilteredLines ==
    /\ executor_thread # None =>
         /\ execs[executor_thread].commands = CommandLines(command_text)
         /\ CommandLines(command_text) # <<>>
    /\ CommandLines(command_text) = <<>> =>
         /\ \A t \in ExecIds : execs[t].pc = "unused"
         /\ trace = <<>>
    /\ \A i \in 1..Len(Sends) : Sends[i].cmd = CommandLines(command_text)[i]

\* the dispatcher has sent the one command of a text of MaxLines lines that
\* also has a blank line and an indented comment line
C16_Witness ==
    /\ Len(command_text) = MaxLines
    /\ \E i \in 1..MaxLines : command_text[i] = << " " >>
    /\ \E i \in 1..MaxLines : command_text[i] = << " ", "#", "c" >>
    /\ executor_thread # None
    /\ Len(execs[executor_thread].commands) = 1
    /\ Len(Sends) = 1
    /\ Sends[1].cmd # command_text[MaxLines]

\* the dispatcher started on ScenarioBatch
ScenarioDispatched == command_text = ScenarioBatch /\ executor_thread # None

\* C17 as stated: for the batch 'config network interface show', '#comment',
\* '', 'bogus_cmd' the dispatcher is handed, and executes, one command,
\* 'config network interface show'.
C17_ScenarioOneCommand ==
    ScenarioDispatched =>
        /\ execs[executor_thread].commands = << << "config network interface show" >> >>
        /\ Len(Sends) <= 1

\* C17 as the code has it: the dispatcher is handed two commands,
\* 'config network interface show' and then 'bogus_cmd'; the comment and the
\* empty line are not handed over, and a finished run has sent both commands
\* in that order.
C17_ScenarioTwoCommands ==
    ScenarioDispatched =>
        /\ execs[executor_thread].commands =
             << << "config network interface show" >>, << "bogus_cmd" >> >>
        /\ Len(Sends) <= 2
        /\ \A i \in 1..Len(Sends) : Sends[i].cmd = execs[executor_thread].commands[i]
        /\ RunFinished => Len(Sends) = 2

\* the run on ScenarioBatch has finished after sending 'bogus_cmd'
C17_Witness ==
    /\ ScenarioDispatched
    /\ RunFinished
    /\ Sends[Len(Sends)].cmd = << "bogus_cmd" >>

\* ----------------------------------------- claims: the failure classes
\* the keyword occurs in the text in some case
Mentions(text, keyword) ==
    LET spellings ==
            CASE keyword = "certificate" -> { "certificate", "Certificate", "CERTIFICATE" }
              [] keyword = "ssl" -> { "ssl", "Ssl", "SSL" }
              [] keyword = "connection" -> { "connection", "Connection", "CONNECTION" }
              [] keyword = "authentication" ->
                     { "authentication", "Authentication", "AUTHENTICATION" }
              [] keyword = "login" -> { "login", "Login", "LOGIN" }
    IN  \E i \in 1..Len(text) : text[i] \in spellings

\* the class of an error text by the precedence of the keywords
ClassOf(text) ==
    IF Mentions(text, "certificate") \/ Mentions(text, "ssl") THEN "SSL/Certificate Error: "
    ELSE IF Mentions(text, "connection") THEN "Connection Error: "
    ELSE IF Mentions(text, "authentication") \/ Mentions(text, "login")
    THEN "Authentication Error: "
    ELSE "unknown"

ClassLabels == { "SSL/Certificate Error: ", "Connection Error: ", "Authentication Error: " }

\* the result events of a failed attempt that wait for the UI thread
FailuresQueued ==
    { i \in 1..Len(ui_queue) : ui_queue[i].sig = "connected" /\ ~ui_queue[i].arg[1] }

\* what follows 'Connection failed: ' in the message of result event i
Reported(i) == Tail(ui_queue[i].arg[2])

\* the error text that result event i reports
ErrorTextOf(i) ==
    IF Reported(i)[1] \in ClassLabels THEN Tail(Reported(i)) ELSE Reported(i)

\* C18: every result event of a failed connection carries success false and
\* a message of one class: certificate/TLS if the error text has
\* 'certificate' or 'ssl' in any case, else connection if it has
\* 'connection', else authentication if it has 'authentication' or 'login',
\* else the error text unchanged.
C18_FailureClassByKeyword ==
    \A i \in 1..Len(ui_queue) :
        ui_queue[i].sig = "connected" =>
            LET arg == ui_queue[i].arg
            IN  /\ arg[1] = (conn.client # None)
                /\ ~arg[1] =>
                     /\ arg[2][1] = "Connection failed: "
                     /\ ErrorTextOf(i) \in ConnErrorTexts
                     /\ IF ClassOf(ErrorTextOf(i)) = "unknown"
                        THEN Reported(i) = ErrorTextOf(i)
                        ELSE Reported(i) = << ClassOf(ErrorTextOf(i)) >> \o ErrorTextOf(i)

\* a failure whose text has 'connection' and 'login' and no certificate
\* keyword waits for the UI thread as a connection error
C18_Witness ==
    \E i \in FailuresQueued :
        /\ Mentions(ErrorTextOf(i), "connection")
        /\ Mentions(ErrorTextOf(i), "login")
        /\ Reported(i)[1] = "Connection Error: "

\* ------------------------------------------------- claims: the profiles
\* the list of profile names as the window reads it
NameList == get_saved_profiles(settings)
NameListAfter == get_saved_profiles(settings')

\* the record of a profile: the values under "profiles/<name>/<field>"
RecordFields == { "host", "port", "user", "saved_date" }
RecordKeys(profile_name) == { ProfileKey(profile_name, field) : field \in RecordFields }
HasRecord(profile_name) == RecordKeys(profile_name) \cap DOMAIN settings # {}
HasRecordAfter(profile_name) == RecordKeys(profile_name) \cap DOMAIN settings' # {}

\* the records of all profile names
AllRecords == [n \in ProfileNames |-> [k \in RecordKeys(n) \cap DOMAIN settings |-> settings[k]]]
AllRecordsAfter == [n \in ProfileNames |-> [k \in RecordKeys(n) \cap DOMAIN settings' |-> settings'[k]]]

\* C19: deleting a profile that exists removes its name from the name list
\* and removes its record; deleting a name that is not in the store changes
\* neither the name list nor any record, and reports no error.
C19_DeleteRemovesOrChangesNothing ==
    [][\A profile_name \in ProfileNames :
          delete_connection_profile(profile_name) =>
              /\ shown'.dialog = ""
              /\ IF InList(profile_name, NameList) /\ HasRecord(profile_name)
                 THEN /\ ~InList(profile_name, NameListAfter)
                      /\ ~HasRecordAfter(profile_name)
                 ELSE (~InList(profile_name, NameList) /\ ~HasRecord(profile_name)) =>
                          /\ NameListAfter = NameList
                          /\ AllRecordsAfter = AllRecords]_vars

\* C20: the name list has no name twice, and a profile name is in the list
\* exactly when a record is stored for it.
C20_ListMatchesRecords ==
    /\ \A i \in 1..Len(NameList), j \in 1..Len(NameList) :
         NameList[i] = NameList[j] => i = j
    /\ \A profile_name \in ProfileNames :
         InList(profile_name, NameList) <=> HasRecord(profile_name)

\* ------------------------------------------- claims: what the store holds
\* a key of a profile's record: "profiles/<name>/<field>", the field one of
\* host, port, user and saved_date
IsRecordKey(key) ==
    /\ Len(key) >= 3
    /\ key[1] = "profiles"
    /\ key[Len(key)] \in RecordFields

\* the value stored under a record key is of the field's kind, and a text
\* stored as host or user is not the password
RecordValueOk(key) ==
    CASE key[Len(key)] = "port" -> settings[key] \in Ports
      [] key[Len(key)] = "saved_date" -> settings[key] \in SaveTimes
      [] OTHER -> settings[key] \in FieldTexts /\ settings[key] # password_edit

\* C21: no sequence of connect, save profile, load profile, delete profile
\* and close window writes the password to the settings store: the keys
\* written are a profile's host, port, user and saved_date, the name list
\* and the window geometry, and no value stored is the password.
C21_PasswordNeverStored ==
    \A key \in DOMAIN settings :
        \/ key = ListKey /\ \A i \in 1..Len(settings[key]) : settings[key][i] \in ProfileNames
        \/ key = GeometryKey /\ settings[key] = "geometry"
        \/ key # ListKey /\ IsRecordKey(key) /\ RecordValueOk(key)

\* the window was closed after a connection was made with the password and
\* a profile was saved: the store holds the record, the list, the geometry
C21_Witness ==
    /\ ui_pc = Closed
    /\ password_edit = SecretPassword
    /\ \E s \in SessionIds : sessions[s] # "unused"
    /\ GeometryKey \in DOMAIN settings
    /\ ListKey \in DOMAIN settings
    /\ \E profile_name \in ProfileNames : HasRecord(profile_name)

\* --------------------------------------------- claims: the progress value
\* the commands of the observed dispatcher
ObservedCommands == execs[observed.id].commands

\* 100 * k / total rounded to the nearest integer
Rounded(k, total) == (200 * k + total) \div (2 * total)

\* C22 (as stated): after the k-th of N commands the dispatcher emits the
\* progress value round(100 * k / N).
C22_ProgressIsRounded ==
    observed.kind = "exec" =>
        \A k \in 1..Len(Progresses) :
            Progresses[k].value = Rounded(k, Len(ObservedCommands))

\* C22: after the k-th of N commands the dispatcher emits the integer part
\* of 100 * k / N: the greatest integer v with v * N <= 100 * k.
C22_ProgressIsTruncated ==
    observed.kind = "exec" =>
        \A k \in 1..Len(Progresses) :
            LET v == Progresses[k].value
                total == Len(ObservedCommands)
            IN  /\ v * total <= 100 * k
                /\ 100 * k < (v + 1) * total

\* two of three commands are done and 66 was emitted, where rounding gives 67
C22_Witness ==
    /\ observed.kind = "exec"
    /\ Len(ObservedCommands) = 3
    /\ Len(Progresses) >= 2
    /\ Progresses[2].value = 66
    /\ Rounded(2, 3) = 67

\* ------------------------------------- claims: the order within one run
\* the sends of the observed run that have neither returned nor raised
SendsInFlight ==
    { p \in 1..Len(trace) :
        IsSend(trace[p]) /\ \A q \in (p + 1)..Len(trace) : ~IsOutcome(trace[q]) }

\* C23: within one dispatcher run, the event of a command is emitted after
\* that command's send has returned or raised and before the next command's
\* send starts, and no two sends of the run overlap.
C23_EventBetweenSends ==
    observed.kind = "exec" =>
        /\ Cardinality(SendsInFlight) <= 1
        /\ \A p \in 1..Len(trace) :
             IsSend(trace[p]) =>
                 \/ p \in SendsInFlight /\ p = Len(trace)
                 \/ /\ p + 2 <= Len(trace)
                    /\ IsOutcome(trace[p + 1])
                    /\ IsEvent(trace[p + 2])
                    /\ trace[p + 2].event[1] = trace[p].cmd
                    /\ trace[p + 2].event[3] = (trace[p + 1].ev = "return")
        /\ \A p \in 1..Len(trace) :
             IsEvent(trace[p]) => p >= 3 /\ IsSend(trace[p - 2])

\* a run of MaxCmds commands has emitted the event of each, the first after
\* a send that raised, and has finished
C23_Witness ==
    /\ observed.kind = "exec"
    /\ execs[observed.id].pc = "finished"
    /\ Len(Sends) = MaxCmds
    /\ Len(Events) = MaxCmds
    /\ trace[2].ev = "raise"

\* --------------------------------------------------- claims: no retries
IsConstruct(e) == e.ev = "construct"
Constructs == SelectSeq(trace, IsConstruct)

\* the sends of the observed run are the run's commands in order, each once
EachCommandSentOnce ==
    observed.kind = "exec" =>
        /\ Len(Sends) <= Len(ObservedCommands)
        /\ \A n \in 1..Len(Sends) : Sends[n].cmd = ObservedCommands[n]

\* C24 (as stated): one connect request makes at most one construction of
\* the session client, whatever error it raises, and each command of a batch
\* is sent at most once per run.
C24_NothingRetried ==
    /\ observed = Connector => Len(Constructs) <= 1
    /\ EachCommandSentOnce

\* C24: one connect request makes at most two constructions of the session
\* client, the second directly after the first (which raised TypeError) and
\* none once the result is known; each command of a batch is sent at most
\* once per run even when its send fails.
C24_OneFallbackNoRetry ==
    /\ observed = Connector =>
         /\ Len(Constructs) <= 2
         /\ \A p \in 1..Len(trace) :
              IsConstruct(trace[p]) =>
                  /\ p \in { 2, 3 }
                  /\ IsConstruct(trace[p - 1]) \/ trace[p - 1] = [ev |-> "progress", value |-> 25]
         /\ Len(Constructs) = 2 => conn.pc \in { "fallback", "finished", "terminated" }
    /\ EachCommandSentOnce

\* a connect request whose first construction raised TypeError and whose
\* second raised too has reported its failure: two constructions
C24_Witness ==
    /\ observed = Connector
    /\ Len(Constructs) = 2
    /\ trace[Len(trace)] = [ev |-> "connected", success |-> FALSE]

\* ------------------------------------- claims: a send raises in a cycle
\* the body of the cycle entered at position i is over: the loop test was
\* reached again, or the poller sleeps or stands at the test
CycleOver(i) ==
    \/ CycleEnd(i) < Len(trace)
    \/ mon.pc \in { "sleep", "test" }

\* C25: when a send raises during a monitor cycle the poller publishes one
\* snapshot, the error string with the exception text, in place of the
\* result; it does not exit (run() returns only after a stop request) and
\* goes on to the sleep and the next loop test; every cycle publishes
\* exactly one snapshot.
C25_RaiseGivesErrorSnapshot ==
    ObservedPoller =>
        /\ \A i \in CycleStarts :
             LET c == CycleOf(i)
             IN  /\ Len(SelectSeq(c, IsSnapshot)) <= 1
                 /\ CycleOver(i) => Len(SelectSeq(c, IsSnapshot)) = 1
                 /\ \A k \in 1..Len(c) :
                      c[k].ev = "raise" =>
                          /\ k + 1 = Len(c)
                          /\ c[k + 1] = [ev |-> "snapshot", data |-> << "Error: " >> \o c[k].text]
                          /\ \/ CycleEnd(i) < Len(trace)
                             \/ mon.pc \in { "sleep", "test" }
        /\ \A p \in 1..Len(trace) : trace[p].ev = "finished" => ~mon.is_running
        /\ \A p \in 1..Len(trace) :
             (trace[p].ev = "raise" /\ p + 2 <= Len(trace)) =>
                 \/ IsCycle(trace[p + 2])
                 \/ trace[p + 2].ev = "finished"

\* a poller that was never asked to stop has published the error snapshot
\* of a cycle whose send raised and has entered its next cycle
C25_Witness ==
    /\ ObservedPoller
    /\ mon.is_running
    /\ Cardinality(CycleStarts) = 2
    /\ \E i \in CycleStarts :
         /\ CycleEnd(i) < Len(trace)
         /\ RaisedIn(CycleOf(i))
         /\ CycleDone(CycleOf(i))

\* --------------------------------------------- claims: loading a profile
\* the record of the profile has the field, and the text it holds is not
\* empty
HasText_InRecord(profile_name, field) ==
    /\ ProfileKey(profile_name, field) \in DOMAIN settings
    /\ settings[ProfileKey(profile_name, field)] # <<>>

\* C26: loading a profile whose record is missing or lacks a host or a user
\* reports a profile error, returns false and leaves the host, port and
\* user fields as they were; loading a complete profile sets the three
\* fields from the record and returns true.
C26_LoadSetsFieldsOrReportsError ==
    [][\A profile_name \in ProfileNames :
          load_connection_profile(profile_name) =>
              IF HasText_InRecord(profile_name, "host") /\ HasText_InRecord(profile_name, "user")
              THEN /\ host_edit' = settings[ProfileKey(profile_name, "host")]
                   /\ ProfileKey(profile_name, "port") \in DOMAIN settings
                   /\ port_spin' = settings[ProfileKey(profile_name, "port")]
                   /\ user_edit' = settings[ProfileKey(profile_name, "user")]
                   /\ shown'.returned = TRUE
                   /\ shown'.dialog = ""
              ELSE /\ shown'.dialog = "Profile Error"
                   /\ shown'.returned = FALSE
                   /\ UNCHANGED << host_edit, port_spin, user_edit >>]_vars

\* a profile was loaded over fields that held other values: the fields hold
\* the record's host, port and user
C26_Witness ==
    /\ "returned" \in DOMAIN shown
    /\ shown.returned
    /\ \E profile_name \in ProfileNames :
         /\ HasText_InRecord(profile_name, "host")
         /\ host_edit = settings[ProfileKey(profile_name, "host")]
         /\ user_edit = settings[ProfileKey(profile_name, "user")]
         /\ port_spin = settings[ProfileKey(profile_name, "port")]
         /\ port_spin # DefaultPort

\* ---------------------------------------- claims: workers and disconnect
\* the step is a worker's call of send_command on session s
IssuesSendOn(s) ==
    \/ \E t \in ExecIds :
         /\ execs[t].client = s
         /\ execs[t].pc # "sending"
         /\ execs'[t].pc = "sending"
    \/ /\ mon.client = s
       /\ mon'.id = mon.id
       /\ mon'.pc = "sending"
       /\ mon.pc # "sending" \/ mon'.sendno > mon.sendno

\* C27: once disconnect_from_appliance has returned (the session it closed
\* is marked closed), no poller, batch dispatcher or terminal executor
\* issues a send on that session.
C27_NoSendOnClosedSession ==
    [][\A s \in SessionIds : sessions[s] = "closed" => ~IssuesSendOn(s)]_vars

\* ------------------------------------------- claims: the stop controls
\* the thread self.monitoring_thread refers to is running
PollerRunning == monitoring_thread # None /\ mon.id = monitoring_thread /\ MonIsRunning

\* while a poller runs the monitor tab's STOP is enabled
StopEnabledWhilePollerRuns == PollerRunning => enabled.stop_btn

\* C28: whenever a monitor poller is running the monitor tab's STOP button
\* is enabled, and whenever a batch is running the commands tab's Stop
\* Execution button is enabled.
C28_StopControlsFollowWorkers ==
    /\ StopEnabledWhilePollerRuns
    /\ BatchRunning => enabled.exec_stop_btn

\* ------------------------------------- claims: the flag and the handle
\* C29: between UI event handlers, is_connected is true exactly when
\* self.client is not None.
C29_ConnectedIffClient ==
    (Alive /\ ui_pc = Idle) => (is_connected <=> client # None)

\* a window that was connected and disconnected has handled the failure of
\* its next connect request
C29_Witness ==
    /\ ui_pc = Idle
    /\ \E s \in SessionIds : sessions[s] = "closed"
    /\ ~is_connected
    /\ client = None
    /\ conn.pc = "finished"
    /\ conn.client = None
    /\ shown.status = "Connection failed"

\* --------------------------------------- claims: one result per attempt
IsConnected(e) == e.ev = "connected"

\* C30: a connection attempt that has returned or raised has emitted the
\* progress value 25, then the progress value 100, then one connected
\* result, and nothing after it; an attempt in flight has emitted no result;
\* while an attempt is in flight connect_btn is disabled, so that no second
\* attempt is started.
C30_OneResultPerAttempt ==
    /\ observed = Connector =>
         /\ Len(SelectSeq(trace, IsConnected)) <= 1
         /\ ConnIsRunning => SelectSeq(trace, IsConnected) = <<>>
         /\ conn.pc = "finished" =>
              /\ Len(trace) >= 4
              /\ trace[1] = [ev |-> "progress", value |-> 25]
              /\ trace[Len(trace) - 1] = [ev |-> "progress", value |-> 100]
              /\ IsConnected(trace[Len(trace)])
              /\ trace[Len(trace)].success = (conn.client # None)
              /\ Len(Progresses) = 2
    /\ ConnIsRunning => ~enabled.connect_btn

\* an attempt has succeeded and its result waits for the UI thread: the
\* values 25 and 100 and the result were emitted, connect_btn is disabled
C30_Witness ==
    /\ observed = Connector
    /\ conn.pc = "finished"
    /\ trace = << [ev |-> "progress", value |-> 25], [ev |-> "construct"],
                  [ev |-> "progress", value |-> 100],
                  [ev |-> "connected", success |-> TRUE] >>
    /\ ui_queue # <<>>
    /\ ~enabled.connect_btn

====
